---- MODULE Spec2Model ----
(***************************************************************************)
(* FireMetaBallSystem (src/unnamed/part_005): a particle flame whose       *)
(* particles are clustered every frame and drawn either as one sprite per  *)
(* particle or as one merged sprite per cluster.                           *)
(*                                                                         *)
(* Units.  Positions are integer pixels.  Time is counted in ticks of      *)
(* 0.05 s, so that the two spawn intervals of the code (0.15 s and 0.25 s) *)
(* are 3 and 5 ticks and a life of 2.0 s is 40 ticks.  Velocities are      *)
(* pixels per tick.  Every threshold of the clusterer is an exact rational *)
(* <<numerator, denominator>>; comparisons of squares are made exactly.    *)
(***************************************************************************)
EXTENDS Integers, Sequences, FiniteSets, TLC

VARIABLES
  particles,      \* this.particles: the live list, in insertion order
  nextId,         \* FireMetaBallParticle.nextId (static)
  maxSprites,     \* this.maxSprites (opts.max)
  spawnTimer,     \* this.spawnTimer, in ticks
  spawnInterval,  \* this.spawnInterval, in ticks
  singleSprites,  \* this.singleSprites: particle id -> [sprite, visible]
  groups,         \* this.groups: key -> [particles, sprite, anchor, tex]
  children,       \* sprites attached to the container (Container.children)
  nextSprite,     \* number of Sprite objects constructed so far
  clusters,       \* the clusters computed by the last clusterer run
  prevClusters,   \* the clusters of the frame before (history)
  lastOp,         \* the operation that produced the current state
  scene,          \* the scene on stage or the component in use, <<>> when none
  registry,       \* the TextureRegistry in use, <<>> when there is none
  game,           \* the GameManager with its SceneControls, <<>> when none
  simulation      \* the offline FlameSimulation, <<>> when there is none

vars == <<particles, nextId, maxSprites, spawnTimer, spawnInterval,
          singleSprites, groups, children, nextSprite, clusters, prevClusters,
          lastOp, scene, registry, game, simulation>>

---------------------------------------------------------------------------
(* Bounds of the model and options of the modelled instance.               *)

\* most particles in an input of the clusterer (specification SpecCluster)
MaxParticles == 3

\* largest opts.max of an input of the clusterer (specification SpecCluster)
MaxClusterBudget == 2

\* largest opts.max of a modelled instance
MaxBudget == 3

\* most particles ever spawned in a run of the system (bounds nextId)
MaxSpawns == 3

\* the frame times dt of update(dt), in ticks
DTS == {1, 20}

\* x - emitterWidth/2 = cos(angle) * radius of a spawn
SpawnUS == {-26, -20, 0}

\* sin(angle) * radius of a spawn
SpawnWS == {20}

\* verticalOffset = baseBias * baseBias * 15 of a spawn, in [0, 3.75)
SpawnOffS == {0}

\* initial velocities of a spawn: cos(angle) * speed is within 26 px/s,
\* sin(angle) * speed within 48..100 px/s upwards
SpawnVXS == {-1, 1}
SpawnVYS == {-3}

\* maxLife = 2.0 + Math.random() * 2.0 seconds, in ticks
MaxLifeS == {40}

\* the sequences of Math.random() draws of one pickMergeTexture call, hundredths
DrawS == {<<10, 10, 10, 10>>, <<80, 80, 80, 80>>}

\* most particles of an input of the reconciliation (specification SpecVisual)
MaxPick == 3

\* positions and remaining lives of the inputs of the reconciliation
VisualXS == {0, 5, 20}
VisualYS == {43, 45}
VisualLifeS == {4, 40}

\* positions of the inputs of the clusterer (specification SpecCluster)
ClusterXS == {0, 26, 57}
ClusterYS == {0, 45}

\* opts.height of the modelled instance, pixels
emitterHeight == 50

\* opts.width of the modelled instance, pixels
emitterWidth == 100

\* opts.mergeDistance of the modelled instance, pixels
baseMergeDistance == 25

\* the multipliers [1, 1.12, 1.4, 1.8, 2, 2.2], each times 25
multipliers == <<25, 28, 35, 45, 50, 55>>

---------------------------------------------------------------------------
(* Exact arithmetic.                                                       *)

Abs(n) == IF n < 0 THEN -n ELSE n

Range(s) == {s[i] : i \in DOMAIN s}

\* the orders in which the sequence s can be supplied
ordersOf(s) ==
  {[i \in DOMAIN s |-> s[f[i]]] :
     f \in {g \in [DOMAIN s -> DOMAIN s] : \A a, b \in DOMAIN s : g[a] = g[b] => a = b}}

RECURSIVE GCD(_, _)
GCD(a, b) == IF b = 0 THEN a ELSE GCD(b, a % b)

\* the rational n/d, d > 0, in lowest terms
Rat(n, d) == LET g == GCD(Abs(n), d) IN IF g = 0 THEN <<0, 1>> ELSE <<n \div g, d \div g>>

RMul(a, b) ==
  LET g1 == GCD(Abs(a[1]), b[2])
      g2 == GCD(Abs(b[1]), a[2])
      h1 == IF g1 = 0 THEN 1 ELSE g1
      h2 == IF g2 = 0 THEN 1 ELSE g2
  IN  <<(a[1] \div h1) * (b[1] \div h2), (a[2] \div h2) * (b[2] \div h1)>>

RLeq(a, b) == a[1] * b[2] <= b[1] * a[2]

RMax(a, b) == IF RLeq(a, b) THEN b ELSE a

\* D * a^2 > b^2 for D >= 0, a > 0, b >= 0, without forming a product beyond
\* a^2 and 2b: with b = k*a + r, it is (D - k^2) * a^2 > r * (2*k*a + r)
SqGt(D, a, b) ==
  LET k == b \div a
      r == b % a
      n == D - k * k
      t == n * a - 2 * k * r
  IN  IF n <= 0 THEN FALSE
      ELSE IF n >= 2 * k + 1 THEN TRUE
      ELSE IF t <= 0 THEN FALSE
      ELSE IF t >= a THEN TRUE
      ELSE t * a > r * r

---------------------------------------------------------------------------
(* FireMetaBallSystem.scaleAtY and the clusterer.                          *)

\* Math.max(0, Math.min(1, y / emitterHeight)) for y = yn/yd, times yd*emitterHeight
clampT(yn, yd) ==
  IF yn < 0 THEN 0 ELSE IF yn > yd * emitterHeight THEN yd * emitterHeight ELSE yn

\* scaleAtY(y) = 0.12 + t * 2 for y = yn/yd
scaleAtY(yn, yd) == Rat(3 * yd * emitterHeight + 50 * clampT(yn, yd), 25 * yd * emitterHeight)

\* threshold = baseMergeDistance * m for the multiplier m = m25/25
thresholdOf(m25) == Rat(baseMergeDistance * m25, 25)

\* Math.floor(v / cell), cell = threshold
cellOf(v, thr) == (v * thr[2]) \div thr[1]

keyOf(x, y, thr) == <<cellOf(x, thr), cellOf(y, thr)>>

\* buckets.get(k): the particles of one grid cell, in input order
bucket(ps, k, thr) == SelectSeq(ps, LAMBDA p : keyOf(p.x, p.y, thr) = k)

\* candidates(px, py): the 3x3 neighbourhood, oy outer and ox inner
candidates(ps, px, py, thr) ==
  LET cx == cellOf(px, thr)
      cy == cellOf(py, thr)
      B(ox, oy) == bucket(ps, <<cx + ox, cy + oy>>, thr)
  IN  B(-1, -1) \o B(0, -1) \o B(1, -1) \o
      B(-1, 0)  \o B(0, 0)  \o B(1, 0)  \o
      B(-1, 1)  \o B(0, 1)  \o B(1, 1)

\* the pairwise test: d2 <= pairThr2
pairTest(cur, nb, thr) ==
  LET dx == cur.x - nb.x
      dy == cur.y - nb.y
      d2 == dx * dx + dy * dy
      pairScale == RMax(scaleAtY(cur.y, 1), scaleAtY(nb.y, 1))
      pairThr == RMul(thr, pairScale)
  IN  ~SqGt(d2, pairThr[2], pairThr[1])

\* the cohesion test against the running centroid (sumX/count, sumY/count)
cohesionTest(nb, st, thr) ==
  LET c == st.count
      cxScale == scaleAtY(st.sumY, c)
      bottomBias == Rat(5 * c * emitterHeight + 4 * st.sumY, 5 * c * emitterHeight)
      cohThr == RMul(RMul(thr, cxScale), bottomBias)
      dcx == c * nb.x - st.sumX
      dcy == c * nb.y - st.sumY
  IN  ~SqGt(dcx * dcx + dcy * dcy, cohThr[2], c * Abs(cohThr[1]))

\* admits without the pairwise test
admits_cohesionOnly(cur, nb, st, thr) == cohesionTest(nb, st, thr)

\* lines 303-321: a candidate is admitted when it passes both tests
admits(cur, nb, st, thr) == pairTest(cur, nb, thr) /\ cohesionTest(nb, st, thr)

\* line 299: the candidates the inner loop skips
skips(cur, nb, st) == nb.id \in st.visited \/ nb.id = cur.id

\* lines 298-333: the inner loop over the candidates of cur
RECURSIVE visitNeighbours(_, _, _, _)
visitNeighbours(cands, cur, st, thr) ==
  IF cands = <<>> THEN st
  ELSE LET nb == Head(cands)
           st2 == IF ~skips(cur, nb, st) /\ admits(cur, nb, st, thr)
                  THEN [visited |-> st.visited \cup {nb.id},
                        comp    |-> Append(st.comp, nb.id),
                        sumX    |-> st.sumX + nb.x,
                        sumY    |-> st.sumY + nb.y,
                        count   |-> st.count + 1,
                        stack   |-> Append(st.stack, nb)]
                  ELSE st
       IN  visitNeighbours(Tail(cands), cur, st2, thr)

\* lines 295-334: the depth-first traversal from the stack
RECURSIVE growComponent(_, _, _)
growComponent(ps, st, thr) ==
  IF st.stack = <<>> THEN st
  ELSE LET cur == st.stack[Len(st.stack)]
           popped == [st EXCEPT !.stack = SubSeq(st.stack, 1, Len(st.stack) - 1)]
       IN  growComponent(ps, visitNeighbours(candidates(ps, cur.x, cur.y, thr), cur, popped, thr), thr)

\* lines 277-337: one component per unvisited seed, in input order
RECURSIVE seedLoop(_, _, _, _, _)
seedLoop(ps, i, visited, out, thr) ==
  IF i > Len(ps) THEN out
  ELSE LET seed == ps[i]
       IN  IF seed.id \in visited THEN seedLoop(ps, i + 1, visited, out, thr)
           ELSE LET st == growComponent(ps,
                            [visited |-> visited \cup {seed.id},
                             comp    |-> <<seed.id>>,
                             sumX    |-> seed.x,
                             sumY    |-> seed.y,
                             count   |-> 1,
                             stack   |-> <<seed>>], thr)
                IN  seedLoop(ps, i + 1, st.visited, Append(out, st.comp), thr)

\* clusterParticles(particles, threshold): clusters as sequences of particle ids,
\* each in admission order
clusterParticles(ps, thr) == seedLoop(ps, 1, {}, <<>>, thr)

\* activesOf without the filter
activesOf_unfiltered(ps) == ps

\* line 204: this.particles.filter(p => p.active)
activesOf(ps) == SelectSeq(ps, LAMBDA p : p.active)

\* fitLoop without the break: every multiplier is tried and the last one kept
fitLoop_noBreak(actives, i, max) ==
  clusterParticles(actives, thresholdOf(multipliers[Len(multipliers)]))

\* lines 212-218: the loop over the multipliers from index i
RECURSIVE fitLoop(_, _, _)
fitLoop(actives, i, max) ==
  LET cl == clusterParticles(actives, thresholdOf(multipliers[i]))
  IN  IF Len(cl) <= max \/ i = Len(multipliers) THEN cl
      ELSE fitLoop(actives, i + 1, max)

\* clusterToFitBudget()
clusterToFitBudget(ps, max) ==
  LET actives == activesOf(ps)
  IN  IF Len(actives) = 0 THEN <<>> ELSE fitLoop(actives, 1, max)

---------------------------------------------------------------------------
(* Particles, anchors, textures and the reconciliation of the visuals.     *)

\* the particle of the list ps with the given id
particleOf(ps, id) == CHOOSE p \in Range(ps) : p.id = id

\* update(dt) that leaves life as it is
particleUpdate_ageless(p, dt, jx, jy) ==
  IF ~p.active THEN p
  ELSE [p EXCEPT !.x = p.x + p.vx * dt,
                 !.y = p.y + p.vy * dt,
                 !.vx = p.vx + jx,
                 !.vy = p.vy - (dt \div 20) + jy]

\* update(dt) without the test of life <= 0
particleUpdate_immortal(p, dt, jx, jy) ==
  IF ~p.active THEN p
  ELSE [p EXCEPT !.x = p.x + p.vx * dt,
                 !.y = p.y + p.vy * dt,
                 !.vx = p.vx + jx,
                 !.vy = p.vy - (dt \div 20) + jy,
                 !.life = p.life - dt]

\* FireMetaBallParticle.update(dt); the random terms jx, jy and the gravity term
\* are whole pixels per tick, the damping 0.995 is below that resolution
particleUpdate(p, dt, jx, jy) ==
  IF ~p.active THEN p
  ELSE [p EXCEPT !.x = p.x + p.vx * dt,
                 !.y = p.y + p.vy * dt,
                 !.vx = p.vx + jx,
                 !.vy = p.vy - (dt \div 20) + jy,
                 !.life = p.life - dt,
                 !.active = (p.life - dt > 0)]

\* FireMetaBallParticle.getAlpha(), times 10: life * 2 with life in seconds is
\* life / 10 with life in ticks
getAlpha(p) == IF ~p.active THEN 0 ELSE IF p.life < 10 THEN p.life ELSE 10

\* the score of pickAnchor, times 1000 * emitterHeight
anchorScore(p) ==
  LET yc == IF p.y < 0 THEN 0 ELSE IF p.y > emitterHeight THEN emitterHeight ELSE p.y
  IN  yc * 650 + getAlpha(p) * 35 * emitterHeight

\* pickAnchor(comp): the first member, in the order of comp, of maximal score
RECURSIVE anchorLoop(_, _, _, _)
anchorLoop(ps, comp, i, best) ==
  IF i > Len(comp) THEN best
  ELSE anchorLoop(ps, comp, i + 1,
         IF anchorScore(particleOf(ps, comp[i])) > anchorScore(particleOf(ps, best))
         THEN comp[i] ELSE best)

\* an anchor taken from the head of the live list, whatever the cluster
pickAnchor_outsider(ps, comp) == ps[1].id

\* pickAnchor that keeps the first member
pickAnchor_first(ps, comp) == comp[1]

pickAnchor(ps, comp) == anchorLoop(ps, comp, 2, comp[1])

\* keyFor without the sort
keyFor_unsorted(comp) == comp

\* keyFor(comp): the ids in ascending order; joining decimal numerals with ','
\* maps distinct sorted lists to distinct strings, so the list stands for the key
keyFor(comp) == SortSeq(comp, LAMBDA a, b : a < b)

\* configs[Math.floor(Math.random() * configs.length)] for the draw r/100
pickOf(configs, r) == configs[1 + (r * Len(configs)) \div 100]

\* the configType of a 2-particle cluster, lines 484-517; draws rnd[1], rnd[2]
pairConfig(p1, p2, rnd) ==
  LET dx == Abs(p1.x - p2.x)
      dy == Abs(p1.y - p2.y)
      d2 == dx * dx + dy * dy
      ux == p2.x - p1.x
      uy == p2.y - p1.y
      byAngle ==
        IF (ux = 0 /\ uy = 0) \/ (ux > 0 /\ uy >= -ux /\ uy < ux)
          THEN (IF rnd[1] < 70 THEN "a2_30" ELSE "a2_150")
        ELSE IF uy > 0 /\ uy >= ux /\ uy > -ux
          THEN (IF rnd[1] < 50 THEN "d2_ne" ELSE "d2_se")
        ELSE IF ux < 0 /\ uy <= -ux /\ uy > ux
          THEN (IF rnd[1] < 70 THEN "a2_60" ELSE "a2_120")
        ELSE (IF rnd[1] < 50 THEN "d2_nw" ELSE "d2_sw")
  IN  IF 5 * dx > 9 * dy
        THEN (IF d2 < 225 THEN "h2_close" ELSE IF d2 < 900 THEN "h2_mid" ELSE "h2_far")
      ELSE IF 5 * dy > 9 * dx
        THEN (IF d2 < 225 THEN "v2_close" ELSE IF d2 < 900 THEN "v2_mid" ELSE "v2_far")
      ELSE IF d2 < 64 THEN (IF rnd[2] < 60 THEN "o2_heavy" ELSE "o2_slight")
      ELSE IF d2 < 144 THEN (IF rnd[2] < 30 THEN "o2_slight" ELSE byAngle)
      ELSE byAngle

configs3 ==
  <<"tri3_eq", "tri3_iso", "tri3_right", "tri3_acute", "lin3_h_close", "lin3_h_far",
    "lin3_v_close", "lin3_v_far", "lin3_diag", "lin3_antidiag", "l3_ne", "l3_nw",
    "l3_se", "l3_sw", "arc3_top", "arc3_bottom", "arc3_left", "arc3_right",
    "v3_up", "v3_down", "v3_left", "v3_right">>

configs4 ==
  <<"cross4", "plus4", "cross4_diag", "square4", "rect4_h", "rect4_v", "diamond4",
    "line4_h", "line4_v", "line4_diag", "t4_up", "t4_down", "t4_left", "t4_right">>

sizes == <<"xs", "s", "m", "l", "xl", "xxl">>

\* pickMergeTexture(particles): the texture name as <<prefix, configType, variation>>,
\* for the successive Math.random() draws rnd[1], rnd[2], ... in hundredths
pickMergeTexture(ps, comp, rnd) ==
  LET count == Len(comp)
      var4(r) == 1 + (r * 4) \div 100
  IN  IF count = 2 THEN
        LET p1 == particleOf(ps, comp[1])
            p2 == particleOf(ps, comp[2])
            dx == Abs(p1.x - p2.x)
            dy == Abs(p1.y - p2.y)
            diag == ~(5 * dx > 9 * dy) /\ ~(5 * dy > 9 * dx)
            d2 == dx * dx + dy * dy
            \* the draws consumed before the variation draw
            used == IF ~diag THEN 0 ELSE IF d2 < 144 THEN 2 ELSE 1
        IN  <<"merge", pairConfig(p1, p2, rnd), var4(rnd[used + 1])>>
      ELSE IF count = 3 THEN <<"merge", pickOf(configs3, rnd[1]), var4(rnd[2])>>
      ELSE IF count = 4 THEN <<"merge", pickOf(configs4, rnd[1]), var4(rnd[2])>>
      ELSE IF count = 5 THEN <<"merge", pickOf(<<"cluster5", "star5", "x5">>, rnd[1]), var4(rnd[2])>>
      ELSE IF count = 6 THEN <<"merge", pickOf(<<"hex6", "flower6", "grid6">>, rnd[1]), var4(rnd[2])>>
      ELSE IF count >= 7 THEN <<"merge", pickOf(<<"circle7", "burst8">>, rnd[1]), var4(rnd[2])>>
      ELSE IF rnd[1] < 30
        THEN <<"", pickOf(<<"scatter3", "scatter4", "scatter5", "scatter6",
                            "scatter7", "scatter8", "scatter9", "scatter10">>, rnd[2]),
               1 + (rnd[3] * 5) \div 100>>
      ELSE IF rnd[2] < 20
        THEN <<"asym", pickOf(<<"tear_up", "tear_down", "tear_left", "tear_right",
                                "comet_ne", "comet_nw", "comet_se", "comet_sw",
                                "flame_tall", "flame_wide", "flame_left", "flame_right",
                                "wave_h", "wave_v", "wave_s">>, rnd[3]),
               1 + (rnd[4] * 3) \div 100>>
      ELSE <<"single", pickOf(sizes, rnd[3]), 1 + (rnd[4] * 6) \div 100>>

\* lines 349-382: the loop of reconcileVisuals over the clusters from index i;
\* acc holds next, the members marked merged, the children of the container and
\* the number of sprites constructed; rnd[i] holds the draws of cluster i
RECURSIVE reconcileLoop(_, _, _, _, _, _)
reconcileLoop(ps, old, cls, i, acc, rnd) ==
  IF i > Len(cls) THEN acc
  ELSE LET comp == cls[i]
           key == keyFor(comp)
           anchor == pickAnchor(ps, comp)
           fresh == key \notin DOMAIN old
           grp == IF fresh
                  THEN [particles |-> comp,
                        sprite |-> [id |-> acc.nextSprite + 1,
                                    texture |-> pickMergeTexture(ps, comp, rnd[i])],
                        anchor |-> anchor]
                  ELSE [old[key] EXCEPT !.particles = comp, !.anchor = anchor]
       IN  IF Len(comp) <= 1 THEN reconcileLoop(ps, old, cls, i + 1, acc, rnd)
           ELSE reconcileLoop(ps, old, cls, i + 1,
                  [next |-> [k \in DOMAIN acc.next \cup {key} |->
                               IF k = key THEN grp ELSE acc.next[k]],
                   merged |-> acc.merged \cup Range(comp),
                   children |-> IF fresh THEN acc.children \cup {grp.sprite.id}
                                ELSE acc.children,
                   nextSprite |-> IF fresh THEN acc.nextSprite + 1 ELSE acc.nextSprite],
                  rnd)

\* staleSprites that detaches nothing
staleSprites_none(old, next) == {}

\* lines 384-388: the sprites of the groups of old that are absent from next
staleSprites(old, next) == {old[k].sprite.id : k \in DOMAIN old \ DOMAIN next}

\* reconcileVisuals(clusters) on the state sys = [particles, singleSprites, groups,
\* children, nextSprite]
reconcileVisuals(sys, cls, rnd) ==
  LET acc == reconcileLoop(sys.particles, sys.groups, cls, 1,
               [next |-> <<>>, merged |-> {}, children |-> sys.children,
                nextSprite |-> sys.nextSprite], rnd)
      stale == staleSprites(sys.groups, acc.next)
      ps2 == [j \in DOMAIN sys.particles |->
                [sys.particles[j] EXCEPT !.merged = (sys.particles[j].id \in acc.merged)]]
      activeIds == {q.id : q \in {r \in Range(ps2) : r.active}}
      \* lines 375-378 then 392-400
      ss2 == [id \in DOMAIN sys.singleSprites |->
                [sys.singleSprites[id] EXCEPT !.visible =
                   IF id \in activeIds THEN id \notin acc.merged
                   ELSE IF id \in acc.merged THEN FALSE
                   ELSE sys.singleSprites[id].visible]]
  IN  [particles |-> ps2, singleSprites |-> ss2, groups |-> acc.next,
       children |-> acc.children \ stale, nextSprite |-> acc.nextSprite]

\* cullDeadParticles without this.singleSprites.delete(p)
cullDeadParticles_noDelete(sys) ==
  LET dead == {q.id : q \in {r \in Range(sys.particles) : ~r.active}}
      gone == {sys.singleSprites[id].sprite : id \in dead \cap DOMAIN sys.singleSprites}
  IN  [sys EXCEPT !.particles = SelectSeq(sys.particles, LAMBDA q : q.active),
                  !.children = sys.children \ gone]

\* cullDeadParticles()
cullDeadParticles(sys) ==
  LET dead == {q.id : q \in {r \in Range(sys.particles) : ~r.active}}
      gone == {sys.singleSprites[id].sprite : id \in dead \cap DOMAIN sys.singleSprites}
  IN  [sys EXCEPT !.particles = SelectSeq(sys.particles, LAMBDA q : q.active),
                  !.singleSprites = [id \in DOMAIN sys.singleSprites \ dead |->
                                       sys.singleSprites[id]],
                  !.children = sys.children \ gone]

\* a visual count that leaves the active particles out
getVisualSpriteCount_groupsOnly(ps, grps) == Cardinality(DOMAIN grps)

\* getVisualSpriteCount()
getVisualSpriteCount(ps, grps) ==
  Cardinality({j \in DOMAIN ps : ps[j].active}) + Cardinality(DOMAIN grps)

\* lines 428-451 of updateGroupSprites: the anchor is re-picked when it is no
\* longer active, the sprite of a group without active members is detached
\* (position, alpha and scale of the sprites are not part of the model)
updateGroupSprites(sys) ==
  LET ps == sys.particles
      alive(id) == \E q \in Range(ps) : q.id = id /\ q.active
      empty == {k \in DOMAIN sys.groups :
                  \A j \in DOMAIN sys.groups[k].particles : ~alive(sys.groups[k].particles[j])}
  IN  [sys EXCEPT !.groups = [k \in DOMAIN sys.groups |->
                     IF alive(sys.groups[k].anchor) THEN sys.groups[k]
                     ELSE [sys.groups[k] EXCEPT !.anchor =
                             pickAnchor(ps, sys.groups[k].particles)]],
                  !.children = sys.children \ {sys.groups[k].sprite.id : k \in empty}]

---------------------------------------------------------------------------
(* The system: construction and update(dt).                                *)

sysOf == [particles |-> particles, singleSprites |-> singleSprites, groups |-> groups,
          children |-> children, nextSprite |-> nextSprite]

\* the positions spawnOne can draw: radius < 30
spawnChoices ==
  {c \in SpawnUS \X SpawnWS \X SpawnOffS : c[1] * c[1] + c[2] * c[2] < 900}

\* spawnOne() for the draw c = <<cos * radius, sin * radius, verticalOffset>>
spawnOne(sys, id, c, vx, vy, maxLife) ==
  LET p == [id |-> id,
            x |-> emitterWidth \div 2 + c[1],
            y |-> emitterHeight - 10 - c[3] + (3 * c[2]) \div 10,
            vx |-> vx, vy |-> vy, life |-> maxLife, maxLife |-> maxLife,
            active |-> TRUE, merged |-> FALSE]
      sprite == sys.nextSprite + 1
  IN  [sys EXCEPT !.particles = Append(sys.particles, p),
                  !.singleSprites = [k \in DOMAIN sys.singleSprites \cup {id} |->
                                       IF k = id THEN [sprite |-> sprite, visible |-> TRUE]
                                       ELSE sys.singleSprites[k]],
                  !.children = sys.children \cup {sprite},
                  !.nextSprite = sprite]

\* spawns without the budget test
spawns_timerOnly(sys, timer) == timer >= spawnInterval

\* line 139 and lines 143-144: maybeSpawn() spawns
spawns(sys, timer) ==
  timer >= spawnInterval /\ getVisualSpriteCount(sys.particles, sys.groups) < maxSprites

Init ==
  /\ particles = <<>>
  /\ nextId = 1
  /\ maxSprites \in 1..MaxBudget
  /\ spawnTimer = 0
  /\ spawnInterval = 3
  /\ singleSprites = <<>>
  /\ groups = <<>>
  /\ children = {}
  /\ nextSprite = 0
  /\ clusters = <<>>
  /\ prevClusters = <<>>
  /\ lastOp = [op |-> "new", arg |-> 0]
  /\ scene = <<>>
  /\ registry = <<>>
  /\ game = <<>>
  /\ simulation = <<>>

\* the clusters of cls for which reconcileVisuals constructs a sprite
freshClusters(grps, cls) ==
  {i \in DOMAIN cls : Len(cls[i]) > 1 /\ keyFor(cls[i]) \notin DOMAIN grps}

\* an interval that is never widened
intervalAfter_narrow(visual) == 3

\* line 145: the spawn interval chosen at a spawn, 0.25 s or 0.15 s in ticks
intervalAfter(visual) == IF visual > maxSprites - 3 THEN 5 ELSE 3

\* the end of update(dt), from the state sys reached after maybeSpawn()
Finish(sys, cls, dt, spawn, visual) ==
  LET timer == spawnTimer + dt
      final == updateGroupSprites(sys)
  IN  /\ particles' = final.particles
      /\ singleSprites' = final.singleSprites
      /\ groups' = final.groups
      /\ children' = final.children
      /\ nextSprite' = final.nextSprite
      /\ nextId' = IF spawn THEN nextId + 1 ELSE nextId
      /\ spawnTimer' = IF timer < spawnInterval THEN timer ELSE 0
      /\ spawnInterval' = IF spawn THEN intervalAfter(visual) ELSE spawnInterval
      /\ clusters' = cls
      /\ prevClusters' = clusters
      /\ lastOp' = [op |-> "update", arg |-> dt]
      /\ UNCHANGED <<maxSprites, scene, registry, game, simulation>>

\* update(dt): integrate, cull, cluster, reconcile, maybeSpawn, refresh the sprites
Update(dt) ==
  LET timer == spawnTimer + dt
      moved == [sysOf EXCEPT !.particles =
                  [j \in DOMAIN particles |-> particleUpdate(particles[j], dt, 0, 0)]]
      culled == cullDeadParticles(moved)
      cls == clusterToFitBudget(culled.particles, maxSprites)
  IN  \E rnd \in [freshClusters(culled.groups, cls) -> DrawS] :
        LET reconciled == reconcileVisuals(culled, cls, rnd)
            visual == getVisualSpriteCount(reconciled.particles, reconciled.groups)
        IN  IF spawns(reconciled, timer)
            THEN /\ nextId <= MaxSpawns
                 /\ \E c \in spawnChoices, vx \in SpawnVXS, vy \in SpawnVYS,
                       maxLife \in MaxLifeS :
                      Finish(spawnOne(reconciled, nextId, c, vx, vy, maxLife),
                             cls, dt, TRUE, visual)
            ELSE Finish(reconciled, cls, dt, FALSE, visual)

\* destroy() that clears the maps without detaching the sprites
destroy_clearOnly(sys) ==
  [sys EXCEPT !.particles = <<>>, !.singleSprites = <<>>, !.groups = <<>>]

\* destroy() that leaves the particle list as it is
destroy_keepParticles(sys) ==
  [sys EXCEPT !.singleSprites = <<>>,
              !.groups = <<>>,
              !.children = sys.children \
                 ({sys.singleSprites[id].sprite : id \in DOMAIN sys.singleSprites}
                  \cup {sys.groups[k].sprite.id : k \in DOMAIN sys.groups})]

\* destroy(): every single sprite and every group sprite that has a parent is
\* removed from it, the maps and the particle list are emptied
destroy(sys) ==
  [sys EXCEPT !.particles = <<>>,
              !.singleSprites = <<>>,
              !.groups = <<>>,
              !.children = sys.children \
                 ({sys.singleSprites[id].sprite : id \in DOMAIN sys.singleSprites}
                  \cup {sys.groups[k].sprite.id : k \in DOMAIN sys.groups})]

\* the call of destroy(); the system is not used afterwards
Destroy ==
  /\ lastOp.op # "destroy"
  /\ LET final == destroy(sysOf)
     IN  /\ particles' = final.particles
         /\ singleSprites' = final.singleSprites
         /\ groups' = final.groups
         /\ children' = final.children
         /\ nextSprite' = final.nextSprite
  /\ clusters' = <<>>
  /\ prevClusters' = clusters
  /\ lastOp' = [op |-> "destroy", arg |-> 0]
  /\ UNCHANGED <<nextId, maxSprites, spawnTimer, spawnInterval, scene, registry, game, simulation>>

\* the frames of a system in use
Frame == lastOp.op # "destroy" /\ \E dt \in DTS : Update(dt)

Next == Frame \/ Destroy

Spec == Init /\ [][Next]_vars

---------------------------------------------------------------------------
(* Properties of the system (specification Spec).                          *)

\* the sprites of the container that are drawn: all but the hidden single sprites
visibleSprites ==
  children \ {singleSprites[id].sprite :
                id \in {k \in DOMAIN singleSprites : ~singleSprites[k].visible}}

\* C1: after every update the number of visible sprites of the system (group
\* sprites and visible single sprites, a particle spawned in the frame
\* included) is at most max.
C1_VisibleWithinBudget == Cardinality(visibleSprites) <= maxSprites

\* C1 witness: an update that spawned a particle ends with the budget of 3
\* used up
C1_Witness_BudgetReached ==
  /\ lastOp.op = "update"
  /\ maxSprites = 3
  /\ Cardinality(visibleSprites) = maxSprites
  /\ \E j \in DOMAIN particles : particles[j].life = particles[j].maxLife

\* C8: a cluster of two or more whose set of member ids is the same in two
\* consecutive frames keeps its group sprite: the same sprite object with the
\* same texture is tracked and attached after the second frame; the group is
\* tracked under the key of every order in which the clusterer can list the
\* members.
C8_GroupSpriteReused ==
  [][\A i \in DOMAIN clusters : \A j \in DOMAIN clusters' :
       (Len(clusters[i]) >= 2 /\ Range(clusters[i]) = Range(clusters'[j])) =>
         /\ \E k \in DOMAIN groups : \E k2 \in DOMAIN groups' :
              /\ Range(k) = Range(clusters[i])
              /\ Range(k2) = Range(k)
              /\ groups'[k2].sprite = groups[k].sprite
              /\ groups[k].sprite.id \in children
              /\ groups[k].sprite.id \in children'
         /\ \A o \in ordersOf(clusters'[j]) :
              /\ keyFor(o) \in DOMAIN groups
              /\ keyFor(o) \in DOMAIN groups'
              /\ groups'[keyFor(o)].sprite = groups[keyFor(o)].sprite]_vars

\* C8 witness: a cluster of two or more with the same members as in the frame
\* before, tracked by a group of that frame
C8_Witness_SameMembers ==
  /\ lastOp.op = "update"
  /\ \E i \in DOMAIN prevClusters : \E j \in DOMAIN clusters :
       /\ Len(clusters[j]) >= 2
       /\ Range(prevClusters[i]) = Range(clusters[j])
       /\ keyFor(clusters[j]) \in DOMAIN groups

\* k lists the members of the cluster c in ascending order
isIdentity(k, c) ==
  /\ Len(k) = Len(c)
  /\ Range(k) = Range(c)
  /\ \A a, b \in DOMAIN k : a < b => k[a] < k[b]

\* the cluster list cls holds a cluster of two or more with identity k
hasGroup(cls, k) == \E i \in DOMAIN cls : Len(cls[i]) >= 2 /\ isIdentity(k, cls[i])

\* C9: after an update the tracked groups are exactly the identities of the
\* frame's clusters of two or more; the sprite of every group tracked before
\* whose identity is absent from the frame is detached, and every new identity
\* gets a newly constructed, attached sprite.
C9_GroupsFollowClusters ==
  [][/\ \A k \in DOMAIN groups' : hasGroup(clusters', k)
     /\ \A i \in DOMAIN clusters' :
          Len(clusters'[i]) >= 2 => \E k \in DOMAIN groups' : isIdentity(k, clusters'[i])
     /\ \A k \in DOMAIN groups :
          ~hasGroup(clusters', k) => groups[k].sprite.id \notin children'
     /\ \A k \in DOMAIN groups' :
          ~hasGroup(clusters, k) => /\ groups'[k].sprite.id > nextSprite
                                    /\ groups'[k].sprite.id \in children']_vars

\* C9 witness: a group of the frame before has lost or gained a member and
\* another group is tracked instead
C9_Witness_IdentityChanged ==
  /\ lastOp.op = "update"
  /\ groups # <<>>
  /\ \E i \in DOMAIN prevClusters :
       /\ Len(prevClusters[i]) >= 2
       /\ \A j \in DOMAIN clusters : Range(clusters[j]) # Range(prevClusters[i])

\* the ids of the live particles
liveIds == {particles[j].id : j \in DOMAIN particles}

\* C10: after every update every live particle is active and has exactly one
\* single sprite, no other particle has one; a particle is merged iff it is
\* a member of a tracked group, its single sprite is visible iff it is not
\* merged; every cluster of two or more has exactly one attached group sprite.
C10_VisualsConsistent ==
  lastOp.op = "update" =>
    /\ \A j \in DOMAIN particles : particles[j].active
    /\ \A a, b \in DOMAIN particles : particles[a].id = particles[b].id => a = b
    /\ DOMAIN singleSprites = liveIds
    /\ \A a, b \in DOMAIN singleSprites :
         singleSprites[a].sprite = singleSprites[b].sprite => a = b
    /\ \A id \in DOMAIN singleSprites : singleSprites[id].sprite \in children
    /\ \A j \in DOMAIN particles :
         /\ particles[j].merged <=>
              \E k \in DOMAIN groups : particles[j].id \in Range(groups[k].particles)
         /\ singleSprites[particles[j].id].visible <=> ~particles[j].merged
    /\ \A i \in DOMAIN clusters :
         Len(clusters[i]) >= 2 =>
           /\ Cardinality({k \in DOMAIN groups : Range(k) = Range(clusters[i])}) = 1
           /\ \A k \in DOMAIN groups :
                Range(k) = Range(clusters[i]) => groups[k].sprite.id \in children
    /\ \A k, k2 \in DOMAIN groups : groups[k].sprite.id = groups[k2].sprite.id => k = k2

\* C10 witness: after an update one particle is merged into a group and
\* another is drawn by its own sprite
C10_Witness_MergedAndSingle ==
  /\ lastOp.op = "update"
  /\ \E j \in DOMAIN particles : particles[j].merged
  /\ \E j \in DOMAIN particles : ~particles[j].merged

\* the ids of the particles listed in the clusters and in the tracked groups
listedIds(cls, grps) ==
  UNION {Range(cls[i]) : i \in DOMAIN cls}
    \cup UNION {Range(grps[k].particles) : k \in DOMAIN grps}
    \cup {grps[k].anchor : k \in DOMAIN grps}

\* C11: a particle whose life reaches 0 or less in the integration of an
\* update is, after that update, out of the live set, without an entry in
\* singleSprites and with its single sprite detached; a particle that has left
\* the live set never returns to it, to a cluster or to a group, and a
\* detached sprite is never attached again.
C11_DeadParticleRemovedOnce ==
  [][/\ \A j \in DOMAIN particles :
          (lastOp'.op = "update" /\ particles[j].life - lastOp'.arg <= 0) =>
            /\ particles[j].id \notin {particles'[i].id : i \in DOMAIN particles'}
            /\ particles[j].id \notin DOMAIN singleSprites'
            /\ singleSprites[particles[j].id].sprite \notin children'
            /\ particles[j].id \notin listedIds(clusters', groups')
     /\ \A id \in (1..(nextId - 1)) \ liveIds :
          /\ id \notin {particles'[i].id : i \in DOMAIN particles'}
          /\ id \notin DOMAIN singleSprites'
          /\ id \notin listedIds(clusters', groups')
     /\ \A s \in (1..nextSprite) \ children : s \notin children']_vars

\* C11 witness: an update has culled a particle while another one lives on
C11_Witness_Culled ==
  /\ lastOp.op = "update"
  /\ liveIds # {}
  /\ \E id \in 1..(nextId - 1) : id \notin liveIds

\* the sprites referenced by singleSprites and by the tracked groups
ownedSprites(singles, grps) ==
  {singles[id].sprite : id \in DOMAIN singles} \cup {grps[k].sprite.id : k \in DOMAIN grps}

\* C12: after every update and after destroy the sprites attached to the
\* container are exactly the sprites referenced by singleSprites and by the
\* tracked groups; a sprite that was detached is never attached again, and
\* after destroy every sprite that was ever constructed is detached.
C12_NoSpriteLeak ==
  [][/\ children' = ownedSprites(singleSprites', groups')
     /\ children' \subseteq 1..nextSprite'
     /\ \A s \in (1..nextSprite) \ children : s \notin children'
     /\ lastOp'.op = "destroy" => children' = {}]_vars

\* C12 witness: destroy is called on a system that had constructed three or
\* more sprites and was drawing a group
C12_Witness_TornDown ==
  /\ lastOp.op = "destroy"
  /\ nextSprite >= 3
  /\ \E i \in DOMAIN prevClusters : Len(prevClusters[i]) >= 2

\* C13: after destroy() the particle list, singleSprites and groups are
\* empty and no sprite constructed by the system is attached; the system
\* keeps no timer or callback, so nothing is left to run.
C13_DestroyReleasesAll ==
  lastOp.op = "destroy" =>
    /\ particles = <<>>
    /\ singleSprites = <<>>
    /\ groups = <<>>
    /\ (1..nextSprite) \cap children = {}
    /\ children = {}

\* C13 witness: destroy is called while a group and a single sprite are drawn
C13_Witness_DestroyedInUse ==
  /\ lastOp.op = "destroy"
  /\ Len(prevClusters) >= 2
  /\ \E i \in DOMAIN prevClusters : Len(prevClusters[i]) >= 2

\* C14: the alpha of an active particle is min(1, 2 * life / maxLife), the
\* alpha of an inactive particle is 0 (alpha in tenths, so that
\* alpha * maxLife = min(10 * maxLife, 20 * life)).
C14_AlphaFadesInFinalHalfLife ==
  lastOp.op = "update" =>
    \A j \in DOMAIN particles :
      LET p == particles[j]
      IN  getAlpha(p) * p.maxLife =
            IF ~p.active THEN 0
            ELSE IF 20 * p.life < 10 * p.maxLife THEN 20 * p.life ELSE 10 * p.maxLife

\* the number of particles spawned by the step
spawnedNow == nextId' - nextId

\* the visual count that maybeSpawn() read in the step: the spawned particle
\* is active and in no group
visualAtAdmission == getVisualSpriteCount(particles', groups') - spawnedNow

\* C15 (amended): an update spawns at most one particle, and only when
\* spawnTimer >= spawnInterval and the visual count is below max; the interval
\* is chosen at a spawn only, from the visual count read before that spawn
\* (0.25 s above max - 3, 0.15 s otherwise), and keeps its value until the
\* next spawn.
C15_IntervalChosenAtSpawn ==
  [][lastOp'.op = "update" =>
       /\ spawnedNow \in {0, 1}
       /\ Cardinality({particles'[i].id : i \in DOMAIN particles'} \ liveIds) = spawnedNow
       /\ spawnedNow = 1 =>
            /\ spawnTimer + lastOp'.arg >= spawnInterval
            /\ visualAtAdmission < maxSprites
            /\ spawnInterval' = IF visualAtAdmission > maxSprites - 3 THEN 5 ELSE 3
       /\ spawnedNow = 0 => spawnInterval' = spawnInterval]_vars

\* C15 witness: a spawn near the budget has widened the interval
C15_Witness_Widened ==
  /\ lastOp.op = "update"
  /\ maxSprites = 3
  /\ spawnInterval = 5
  /\ \E j \in DOMAIN particles : particles[j].life = particles[j].maxLife

\* C15: an update spawns at most one particle, only when spawnTimer >=
\* spawnInterval and the visual count is below max, and whenever the visual
\* count is above max - 3 the interval that the timer is compared with is the
\* widened 0.25 s, otherwise the narrow 0.15 s.
C15_IntervalFollowsCount ==
  [][lastOp'.op = "update" =>
       /\ spawnedNow \in {0, 1}
       /\ spawnedNow = 1 =>
            /\ spawnTimer + lastOp'.arg >= spawnInterval
            /\ visualAtAdmission < maxSprites
       /\ spawnInterval = IF visualAtAdmission > maxSprites - 3 THEN 5 ELSE 3]_vars

\* C16: getVisualSpriteCount() is the number of visible visuals: the active
\* particles that are not merged plus the tracked groups.
C16_CountIsVisibleVisuals ==
  lastOp.op = "update" =>
    getVisualSpriteCount(particles, groups) =
      Cardinality({j \in DOMAIN particles : particles[j].active /\ ~particles[j].merged})
        + Cardinality(DOMAIN groups)

\* C24: of two particles the one higher up in the flame, that is the one
\* with the smaller y (particles rise from y near emitterHeight towards 0),
\* never has the smaller scaleAtY; a rising particle's scale never decreases.
C24_ScaleFavoursTip ==
  [][lastOp'.op = "update" =>
       /\ \A a, b \in DOMAIN particles' :
            particles'[a].y < particles'[b].y =>
              RLeq(scaleAtY(particles'[b].y, 1), scaleAtY(particles'[a].y, 1))
       /\ \A a \in DOMAIN particles : \A b \in DOMAIN particles' :
            (particles[a].id = particles'[b].id /\ particles'[b].y < particles[a].y) =>
              RLeq(scaleAtY(particles[a].y, 1), scaleAtY(particles'[b].y, 1))]_vars

\* GameManager.getSpriteCount() restricted to the system: every child of the
\* container has a texture and is counted, visible or not
getSpriteCount == Cardinality(children)

\* C25: after every update the number of sprites attached to the system, as
\* the debug menu counts them (hidden single sprites of merged particles
\* included), is at most max.
C25_AttachedWithinBudget == lastOp.op = "update" => getSpriteCount <= maxSprites

\* the particles that the clusterer of the last update() was given: those
\* listed in its clusters
clustered ==
  SelectSeq(particles, LAMBDA p : \E i \in DOMAIN clusters : p.id \in Range(clusters[i]))

\* C29: after every update() the active particles are at most max, and the
\* clusters of the update are those of the first multiplier (1), which fit
\* the budget: clusterToFitBudget neither escalates nor returns a clustering
\* above the budget.
C29_FirstMultiplierAccepted ==
  lastOp.op = "update" =>
    LET first == clusterParticles(activesOf(clustered), thresholdOf(multipliers[1]))
    IN  /\ Cardinality({j \in DOMAIN particles : particles[j].active}) <= maxSprites
        /\ Len(clustered) <= maxSprites
        /\ clustered # <<>> => (Len(first) <= maxSprites /\ clusters = first)

C29_Witness_FullBudgetClustered ==
  /\ lastOp.op = "update"
  /\ maxSprites >= 2
  /\ Len(clustered) = maxSprites
  /\ Len(clusters) = maxSprites

\* C30: after every update() every tracked group has two or more members,
\* all of them live and active, shares no member with another group, has the
\* ascending list of its member ids as key and an active member as anchor;
\* so updateGroupSprites found no dead anchor and no group without members.
C30_GroupsWellFormed ==
  lastOp.op = "update" =>
    /\ \A k \in DOMAIN groups :
         /\ Len(groups[k].particles) >= 2
         /\ \A i \in DOMAIN groups[k].particles :
              \E j \in DOMAIN particles :
                particles[j].id = groups[k].particles[i] /\ particles[j].active
         /\ isIdentity(k, groups[k].particles)
         /\ groups[k].anchor \in Range(groups[k].particles)
         /\ \E j \in DOMAIN particles :
              particles[j].id = groups[k].anchor /\ particles[j].active
    /\ \A k, l \in DOMAIN groups :
         k # l => Range(groups[k].particles) \cap Range(groups[l].particles) = {}

C30_Witness_GroupBesideSingle ==
  /\ lastOp.op = "update"
  /\ groups # <<>>
  /\ prevClusters # <<>>
  /\ \E j \in DOMAIN particles : ~particles[j].merged
  /\ \E k \in DOMAIN groups : groups[k].anchor # groups[k].particles[1]

---------------------------------------------------------------------------
(* The clusterer on its own: clusterParticles and clusterToFitBudget       *)
(* applied to bounded particle lists.                                      *)

\* a particle at (x, y), as the clusterer reads it; the lists hold at most one
\* particle that is not active
particleAt(id, x, y, active) ==
  [id |-> id, x |-> x, y |-> y, vx |-> 0, vy |-> -3,
   life |-> IF active THEN 40 ELSE 0, maxLife |-> 40,
   active |-> active, merged |-> FALSE]

InitCluster ==
  /\ \E n \in 0..MaxParticles :
       \E pos \in [1..n -> ClusterXS \X ClusterYS], dead \in 0..n :
         particles = [i \in 1..n |-> particleAt(i, pos[i][1], pos[i][2], i # dead)]
  /\ nextId = Len(particles) + 1
  /\ maxSprites \in 1..MaxClusterBudget
  /\ spawnTimer = 0
  /\ spawnInterval = 3
  /\ singleSprites = <<>>
  /\ groups = <<>>
  /\ children = {}
  /\ nextSprite = 0
  /\ clusters = <<>>
  /\ prevClusters = <<>>
  /\ lastOp = [op |-> "new", arg |-> 0]
  /\ scene = <<>>
  /\ registry = <<>>
  /\ game = <<>>
  /\ simulation = <<>>

\* clusterParticles(actives, baseMergeDistance * multipliers[i]), applied to
\* the list drawn by InitCluster
Cluster(i) ==
  /\ lastOp.op = "new"
  /\ clusters' = clusterParticles(activesOf(particles), thresholdOf(multipliers[i]))
  /\ lastOp' = [op |-> "cluster", arg |-> i]
  /\ UNCHANGED <<particles, nextId, maxSprites, spawnTimer, spawnInterval,
                 singleSprites, groups, children, nextSprite, prevClusters, scene, registry, game, simulation>>

\* clusterToFitBudget(), applied to the list drawn by InitCluster
Fit ==
  /\ lastOp.op = "new"
  /\ clusters' = clusterToFitBudget(particles, maxSprites)
  /\ lastOp' = [op |-> "fit", arg |-> 0]
  /\ UNCHANGED <<particles, nextId, maxSprites, spawnTimer, spawnInterval,
                 singleSprites, groups, children, nextSprite, prevClusters, scene, registry, game, simulation>>

NextCluster == (\E i \in DOMAIN multipliers : Cluster(i)) \/ Fit

SpecCluster == InitCluster /\ [][NextCluster]_vars

---------------------------------------------------------------------------
(* Properties of the clusterer (specification SpecCluster).                *)

\* the clusters of the active particles at the i-th multiplier
clustersAt(i) == clusterParticles(activesOf(particles), thresholdOf(multipliers[i]))

\* the partition a cluster list stands for
partitionOf(cls) == {Range(cls[i]) : i \in DOMAIN cls}

\* the multipliers at which the cluster count fits the budget
fitting == {i \in DOMAIN multipliers : Len(clustersAt(i)) <= maxSprites}

\* C2: clusterToFitBudget returns the clusters of the first multiplier, in the
\* order of the list, whose cluster count is at most max, and the clusters of
\* the largest multiplier when none fits.
C2_FirstFittingMultiplier ==
  lastOp.op = "fit" =>
    clusters = IF fitting = {} THEN clustersAt(Len(multipliers))
               ELSE clustersAt(CHOOSE i \in fitting : \A j \in fitting : i <= j)

\* C2 witness: the budget was met only after escalating past a multiplier
\* that was over budget, with a result that differs from the one at 2.2
C2_Witness_Escalated ==
  /\ lastOp.op = "fit"
  /\ 1 \notin fitting
  /\ fitting # {}
  /\ clusters # clustersAt(Len(multipliers))

\* C3: the number of clusters computed at a multiplier is at most the number
\* computed, for the same active particles, at any smaller multiplier.
C3_CountMonotone ==
  lastOp.op = "cluster" =>
    \A i \in 1..(lastOp.arg - 1) : Len(clusters) <= Len(clustersAt(i))

\* C4: the result of clusterToFitBudget partitions the active particles:
\* clusters are non-empty, no id occurs twice, every active id occurs and no
\* other; no active particle gives the empty list, one gives one singleton.
C4_PartitionOfActives ==
  lastOp.op = "fit" =>
    LET act == {p.id : p \in {q \in Range(particles) : q.active}}
        slots == {<<i, j>> \in (DOMAIN clusters) \X (1..MaxParticles + 1) :
                    j \in DOMAIN clusters[i]}
    IN  /\ \A i \in DOMAIN clusters : Len(clusters[i]) >= 1
        /\ \A a, b \in slots : clusters[a[1]][a[2]] = clusters[b[1]][b[2]] => a = b
        /\ {clusters[a[1]][a[2]] : a \in slots} = act
        /\ act = {} => clusters = <<>>
        /\ \A id \in act : act = {id} => clusters = << <<id>> >>

\* C4 witness: a multi-particle cluster was returned while an inactive
\* particle was in the list
C4_Witness_InactiveLeftOut ==
  /\ lastOp.op = "fit"
  /\ \E p \in Range(particles) : ~p.active
  /\ \E i \in DOMAIN clusters : Len(clusters[i]) >= 2

\* C5: in every cluster returned by clusterParticles each member after the
\* seed passes the pairwise distance test with a member admitted before it.
C5_ClusterConnected ==
  lastOp.op = "cluster" =>
    LET act == activesOf(particles)
        thr == thresholdOf(multipliers[lastOp.arg])
    IN  \A i \in DOMAIN clusters : \A k \in 2..Len(clusters[i]) :
          \E j \in 1..(k - 1) :
            pairTest(particleOf(act, clusters[i][j]), particleOf(act, clusters[i][k]), thr)

\* C5 witness: a cluster of three whose last member is out of range of the seed
C5_Witness_Chain ==
  /\ lastOp.op = "cluster"
  /\ \E i \in DOMAIN clusters :
       /\ Len(clusters[i]) = 3
       /\ ~pairTest(particleOf(particles, clusters[i][1]),
                    particleOf(particles, clusters[i][3]),
                    thresholdOf(multipliers[lastOp.arg]))

\* C6: the partition computed by clusterParticles at a threshold is the one
\* it computes for every other order in which the same particles are supplied.
C6_OrderIndependent ==
  lastOp.op = "cluster" =>
    \A o \in ordersOf(activesOf(particles)) :
      partitionOf(clusterParticles(o, thresholdOf(multipliers[lastOp.arg])))
        = partitionOf(clusters)

\* C7: two particles that pass the pairwise test at the threshold of a
\* clusterer run lie in the same or in adjacent cells of its grid.
C7_GridCoversRange ==
  lastOp.op = "cluster" =>
    LET thr == thresholdOf(multipliers[lastOp.arg])
    IN  \A p, q \in Range(activesOf(particles)) :
          pairTest(p, q, thr) =>
            /\ Abs(cellOf(p.x, thr) - cellOf(q.x, thr)) <= 1
            /\ Abs(cellOf(p.y, thr) - cellOf(q.y, thr)) <= 1

---------------------------------------------------------------------------
(* The reconciliation on its own: clusterToFitBudget, reconcileVisuals and *)
(* updateGroupSprites applied to bounded lists of active particles whose   *)
(* single sprites are attached.                                            *)

InitVisual ==
  /\ \E n \in 1..MaxPick :
       \E d \in [1..n -> VisualXS \X VisualYS \X VisualLifeS] :
         /\ particles = [i \in 1..n |->
                           [id |-> i, x |-> d[i][1], y |-> d[i][2], vx |-> 0, vy |-> -3,
                            life |-> d[i][3], maxLife |-> 40,
                            active |-> TRUE, merged |-> FALSE]]
         /\ singleSprites = [id \in 1..n |-> [sprite |-> id, visible |-> TRUE]]
         /\ children = 1..n
         /\ nextSprite = n
         /\ nextId = n + 1
  /\ maxSprites \in {1, MaxClusterBudget}
  /\ spawnTimer = 0
  /\ spawnInterval = 3
  /\ groups = <<>>
  /\ clusters = <<>>
  /\ prevClusters = <<>>
  /\ lastOp = [op |-> "new", arg |-> 0]
  /\ scene = <<>>
  /\ registry = <<>>
  /\ game = <<>>
  /\ simulation = <<>>

\* lines 123-124 and 130 of update(): the clusters of the drawn list are
\* reconciled and the group sprites refreshed
Reconcile ==
  /\ lastOp.op = "new"
  /\ LET cls == clusterToFitBudget(particles, maxSprites)
     IN  \E rnd \in [freshClusters(groups, cls) -> DrawS] :
           LET final == updateGroupSprites(reconcileVisuals(sysOf, cls, rnd))
           IN  /\ particles' = final.particles
               /\ singleSprites' = final.singleSprites
               /\ groups' = final.groups
               /\ children' = final.children
               /\ nextSprite' = final.nextSprite
               /\ clusters' = cls
  /\ prevClusters' = clusters
  /\ lastOp' = [op |-> "reconcile", arg |-> 0]
  /\ UNCHANGED <<nextId, maxSprites, spawnTimer, spawnInterval, scene, registry, game, simulation>>

NextVisual == Reconcile

SpecVisual == InitVisual /\ [][NextVisual]_vars

---------------------------------------------------------------------------
(* Properties of the reconciliation (specification SpecVisual).            *)

pairDx(g) ==
  Abs(particleOf(particles, g.particles[1]).x - particleOf(particles, g.particles[2]).x)

pairDy(g) ==
  Abs(particleOf(particles, g.particles[1]).y - particleOf(particles, g.particles[2]).y)

\* C18: the sprite of a 2-particle cluster with |dx| = 20 and |dy| = 2 is
\* constructed with a texture of the horizontal/far family merge_h2_far_*.
C18_HorizontalFarAt20 ==
  lastOp.op = "reconcile" =>
    \A k \in DOMAIN groups :
      (Len(groups[k].particles) = 2 /\ pairDx(groups[k]) = 20 /\ pairDy(groups[k]) = 2) =>
        /\ groups[k].sprite.texture[1] = "merge"
        /\ groups[k].sprite.texture[2] = "h2_far"

\* C19: the sprite of a 2-particle cluster whose members are less than 8
\* apart is constructed with a texture of the overlapping family (o2_heavy
\* or o2_slight), whatever the orientation of the pair.
C19_OverlapWhateverOrientation ==
  lastOp.op = "reconcile" =>
    \A k \in DOMAIN groups :
      (/\ Len(groups[k].particles) = 2
       /\ pairDx(groups[k]) * pairDx(groups[k]) + pairDy(groups[k]) * pairDy(groups[k]) < 64) =>
        groups[k].sprite.texture[2] \in {"o2_heavy", "o2_slight"}

\* C20: for a cluster of three or more there is a sequence of random draws
\* for which pickMergeTexture returns a scattered (scatterN_*) or an
\* asymmetric (asym_*) texture.
C20_ScatterReachable ==
  lastOp.op = "reconcile" =>
    \A k \in DOMAIN groups :
      Len(groups[k].particles) >= 3 =>
        \E rnd \in [1..4 -> {10, 25, 80}] :
          pickMergeTexture(particles, groups[k].particles, rnd)[1] \in {"", "asym"}

---------------------------------------------------------------------------
(* The system with an atlas that failed to load: AssetLoader.getTexture    *)
(* throws for every name of the family miss ("single" or "merge").         *)

\* the atlas families whose absence is modelled
MissS == {"none", "single", "merge"}

\* lines 342-362 of reconcileVisuals when getTexture throws for the cluster
\* cls[i], the first one without a tracked group: the merged flags are
\* reset, the clusters before it (all tracked) are processed, this.groups and
\* the container are as they were
reconcileThrows(sys, cls, i) ==
  LET acc == reconcileLoop(sys.particles, sys.groups, SubSeq(cls, 1, i - 1), 1,
               [next |-> <<>>, merged |-> {}, children |-> sys.children,
                nextSprite |-> sys.nextSprite], <<>>)
  IN  [sys EXCEPT
         !.particles = [j \in DOMAIN sys.particles |->
                          [sys.particles[j] EXCEPT
                             !.merged = (sys.particles[j].id \in acc.merged)]],
         !.singleSprites = [id \in DOMAIN sys.singleSprites |->
                              [sys.singleSprites[id] EXCEPT !.visible =
                                 IF id \in acc.merged THEN FALSE
                                 ELSE sys.singleSprites[id].visible]],
         !.groups = [k \in DOMAIN sys.groups |->
                       IF k \in DOMAIN acc.next THEN acc.next[k] ELSE sys.groups[k]]]

\* lines 152-167 of spawnOne when getTexture throws: the particle is pushed,
\* no sprite is constructed and no entry of singleSprites is made
spawnThrows(sys, id, c, vx, vy, maxLife) ==
  [sys EXCEPT !.particles =
     Append(sys.particles,
            [id |-> id,
             x |-> emitterWidth \div 2 + c[1],
             y |-> emitterHeight - 10 - c[3] + (3 * c[2]) \div 10,
             vx |-> vx, vy |-> vy, life |-> maxLife, maxLife |-> maxLife,
             active |-> TRUE, merged |-> FALSE])]

\* update(dt) with a catalog in which the texture looked up at the
\* construction of a group sprite (miss = "merge") or of a single sprite
\* (miss = "single") is missing, so that getTexture throws and update(dt) is
\* left there; with miss = "none" every texture is found
UpdateThrows(dt, miss) ==
  LET timer == spawnTimer + dt
      moved == [sysOf EXCEPT !.particles =
                  [j \in DOMAIN particles |-> particleUpdate(particles[j], dt, 0, 0)]]
  IN  \E culled \in {cullDeadParticles(moved)} :
      \E cls \in {clusterToFitBudget(culled.particles, maxSprites)} :
      \E fresh \in {freshClusters(culled.groups, cls)} :
        IF miss = "merge"
        THEN /\ fresh # {}
             /\ \E left \in {reconcileThrows(culled, cls,
                               CHOOSE i \in fresh : \A j \in fresh : i <= j)} :
                  /\ particles' = left.particles
                  /\ singleSprites' = left.singleSprites
                  /\ groups' = left.groups
                  /\ children' = left.children
                  /\ nextSprite' = left.nextSprite
             /\ spawnTimer' = timer
             /\ lastOp' = [op |-> "throw", arg |-> dt]
             /\ prevClusters' = clusters
             /\ clusters' = cls
             /\ UNCHANGED <<nextId, spawnInterval, maxSprites, scene, registry, game, simulation>>
        ELSE \E rnd \in [fresh -> DrawS] :
             \E reconciled \in {reconcileVisuals(culled, cls, rnd)} :
             \E visual \in {getVisualSpriteCount(reconciled.particles, reconciled.groups)} :
               IF spawns(reconciled, timer)
               THEN /\ nextId <= MaxSpawns
                    /\ \E c \in spawnChoices, vx \in SpawnVXS, vy \in SpawnVYS,
                          maxLife \in MaxLifeS :
                         IF miss = "none"
                         THEN \E spawned \in {spawnOne(reconciled, nextId, c, vx, vy,
                                                       maxLife)} :
                                Finish(spawned, cls, dt, TRUE, visual)
                         ELSE \E left \in {spawnThrows(reconciled, nextId, c, vx, vy,
                                                       maxLife)} :
                                /\ particles' = left.particles
                                /\ singleSprites' = left.singleSprites
                                /\ groups' = left.groups
                                /\ children' = left.children
                                /\ nextSprite' = left.nextSprite
                                /\ nextId' = nextId + 1
                                /\ spawnInterval' = intervalAfter(visual)
                                /\ spawnTimer' = timer
                                /\ lastOp' = [op |-> "throw", arg |-> dt]
                                /\ prevClusters' = clusters
                                /\ clusters' = cls
                                /\ UNCHANGED <<maxSprites, scene, registry, game, simulation>>
               ELSE miss = "none" /\ Finish(reconciled, cls, dt, FALSE, visual)

\* a frame of a system whose catalog may miss a texture; the frames after an
\* exception are not followed
FrameThrows ==
  lastOp.op \notin {"destroy", "throw"} /\ \E dt \in DTS, miss \in MissS : UpdateThrows(dt, miss)

NextMiss == FrameThrows

SpecMiss == Init /\ [][NextMiss]_vars

\* C21: when the catalog has no texture for the name selected at a spawn or
\* at the creation of a group, update() does not throw: the frame completes
\* and every live particle has its single sprite.
C21_CatalogMissFallsBack ==
  /\ lastOp.op # "throw"
  /\ \A j \in DOMAIN particles : particles[j].id \in DOMAIN singleSprites

\* C31: when getTexture throws in spawnOne or at the creation of a group in
\* reconcileVisuals, the system is left consistent: every live particle has
\* its single sprite, a particle is merged iff it is a member of a tracked
\* group, and its single sprite is visible iff it is not merged.
C31_ThrowLeavesConsistent ==
  lastOp.op = "throw" =>
    /\ \A j \in DOMAIN particles : particles[j].id \in DOMAIN singleSprites
    /\ \A j \in DOMAIN particles :
         particles[j].id \in DOMAIN singleSprites =>
           /\ particles[j].merged <=>
                \E k \in DOMAIN groups : particles[j].id \in Range(groups[k].particles)
           /\ singleSprites[particles[j].id].visible <=> ~particles[j].merged

---------------------------------------------------------------------------
(* The system driven with a negative frame time.                           *)

\* the negative frame times dt of update(dt), in ticks (-1.0 s)
NegDTS == {-20}

\* update(dt) with dt of either sign; the frames after a negative one are
\* not followed
FrameSigned ==
  /\ lastOp.op # "destroy"
  /\ lastOp.arg >= 0
  /\ \E dt \in DTS \cup NegDTS : Update(dt)

NextNegative == FrameSigned

SpecNegative == Init /\ [][NextNegative]_vars

\* C22: update(dt) with a negative dt leaves the particles (positions,
\* velocities, life, active flags), the spawn timer and interval, the live
\* set and all visuals unchanged.
C22_NegativeDtIsNoOp ==
  [][(lastOp'.op = "update" /\ lastOp'.arg < 0) =>
       UNCHANGED <<particles, nextId, spawnTimer, spawnInterval, singleSprites,
                   groups, children, nextSprite>>]_vars

---------------------------------------------------------------------------
(* Several systems one after the other: FireMetaBallParticle.nextId is a    *)
(* static field, shared by the instances.                                  *)

\* the frame times dt of the systems of SpecInstances, in ticks
CoarseDTS == {20}

FrameCoarse == lastOp.op # "destroy" /\ \E dt \in CoarseDTS : Update(dt)

\* a constructor that starts the ids of its particles at 1 again
Construct_resetIds ==
  /\ lastOp.op = "destroy"
  /\ maxSprites' \in 1..MaxBudget
  /\ spawnTimer' = 0
  /\ spawnInterval' = 3
  /\ particles' = <<>>
  /\ singleSprites' = <<>>
  /\ groups' = <<>>
  /\ clusters' = <<>>
  /\ prevClusters' = <<>>
  /\ nextId' = 1
  /\ lastOp' = [op |-> "new", arg |-> 1]
  /\ UNCHANGED <<children, nextSprite, scene, registry, game, simulation>>

\* new FireMetaBallSystem(opts) after the system before it was destroyed: the
\* fields of the instance are initialised, the static id counter is not
Construct ==
  /\ lastOp.op = "destroy"
  /\ maxSprites' \in 1..MaxBudget
  /\ spawnTimer' = 0
  /\ spawnInterval' = 3
  /\ particles' = <<>>
  /\ singleSprites' = <<>>
  /\ groups' = <<>>
  /\ clusters' = <<>>
  /\ prevClusters' = <<>>
  /\ lastOp' = [op |-> "new", arg |-> 1]
  /\ UNCHANGED <<nextId, children, nextSprite, scene, registry, game, simulation>>

NextInstances == FrameCoarse \/ Destroy \/ Construct

SpecInstances == Init /\ [][NextInstances]_vars

\* C23: the ids of the particles are strictly increasing in the order of
\* creation and never reused, also after a cull, after destroy() and in a
\* later instance: a created particle has an id above every id given out
\* before, the live list is in ascending order of id, and two clusters with
\* different member sets have different keys.
C23_IdsNeverReused ==
  [][/\ nextId' >= nextId
     /\ \A j \in DOMAIN particles' :
          /\ particles'[j].id < nextId'
          /\ particles'[j].id \notin liveIds => particles'[j].id >= nextId
     /\ \A a, b \in DOMAIN particles' : a < b => particles'[a].id < particles'[b].id
     /\ \A a, b \in DOMAIN clusters' :
          keyFor(clusters'[a]) = keyFor(clusters'[b]) =>
            Range(clusters'[a]) = Range(clusters'[b])]_vars

\* C23 witness: the first update of an instance constructed after another
\* had given out ids and was destroyed spawns a particle
C23_Witness_LaterInstance ==
  /\ lastOp.op = "update"
  /\ clusters = <<>>
  /\ prevClusters = <<>>
  /\ Len(particles) = 1
  /\ particles[1].life = particles[1].maxLife
  /\ particles[1].id > 1

---------------------------------------------------------------------------
(* The system driven for ever by its ticker: update(dt) keeps being called *)
(* with a frame time of 0.5 s or more.                                     *)

\* the frame times dt of SpecSteady, in ticks
SteadyDTS == {10, 20}

FrameSteady == lastOp.op # "destroy" /\ \E dt \in SteadyDTS : Update(dt)

NextSteady == FrameSteady

\* the step of the ticker: update(dt) is called; it is followed while the
\* spawns followed are not used up
Ticked ==
  /\ lastOp.op # "destroy"
  /\ nextId <= MaxSpawns
  /\ lastOp' \in {[op |-> "update", arg |-> dt] : dt \in SteadyDTS}

\* the ticker calls update() again and again
SpecSteady == Init /\ [][NextSteady]_vars /\ WF_lastOp(Ticked)

\* C32: in every update(dt) the life of a live particle falls by dt > 0, a
\* particle that stays has life left (so it stays for fewer than maxLife / dt
\* updates), a particle whose life is used up is gone with its single sprite
\* at the end of that update, and every particle is removed in the end (as
\* long as the spawns followed are not used up).
C32_ParticleEventuallyRemoved ==
  /\ [][lastOp'.op = "update" =>
          /\ lastOp'.arg > 0
          /\ \A j \in DOMAIN particles :
               IF particles[j].life - lastOp'.arg > 0
               THEN \E i \in DOMAIN particles' :
                      /\ particles'[i].id = particles[j].id
                      /\ particles'[i].life = particles[j].life - lastOp'.arg
                      /\ particles'[i].life < particles[j].life
                      /\ particles'[i].life <= particles'[i].maxLife
               ELSE /\ particles[j].id \notin {particles'[i].id : i \in DOMAIN particles'}
                    /\ particles[j].id \notin DOMAIN singleSprites'
                    /\ singleSprites[particles[j].id].sprite \notin children']_vars
  /\ \A id \in 1..MaxSpawns :
       (id \in liveIds) ~> (id \notin liveIds \/ nextId > MaxSpawns)

C32_Witness_RemovedInTime ==
  /\ lastOp.op = "update"
  /\ nextId <= MaxSpawns
  /\ \E id \in 1..(nextId - 1) : id \notin liveIds
  /\ liveIds # {}

(***************************************************************************)
(* AceOfShadowsScene (src/src/scenes/AceOfShadowsScene.ts): a deck dealt   *)
(* on the source stack, moved card by card to the destination stack.       *)
(*                                                                         *)
(* Units.  Scene time is counted in steps of 500 ms, so ANIMATION_INTERVAL *)
(* (1000 ms) is 2 steps and ANIMATION_DURATION (2000 ms) is 4; the speed   *)
(* multiplier keeps its default 1.  The clock of the tween group advances  *)
(* by deltaTime between two calls of update().  A card is its number i of  *)
(* createCards; null is 0.  The scene is the record held by the variable   *)
(* scene; its field sinceStart is history: the update time accumulated     *)
(* since the last card started to move, -1 before the first start; so is   *)
(* restarted: the cards whose movement onResize() has started again, and   *)
(* transferredCalls: the number of calls of onAllCardsTransferred().       *)
(***************************************************************************)

\* TOTAL_CARDS of the modelled decks is at most MaxCards (144 in the source)
MaxCards == 3

\* update() is not followed beyond an animationTimer of MaxTimer steps
MaxTimer == 8

ANIMATION_INTERVAL == 2

ANIMATION_DURATION == 4

\* deltaTime of update(deltaTime), in steps
AceDTS == {1, 2}

\* this.activeTween = null
noTween == [active |-> FALSE, elapsed |-> 0, destIndex |-> 0]

\* the field initialisers and createCards(): card i at position i - 1 of the
\* source stack
newScene(total) ==
  [cards |-> [i \in 1..total |-> [stackIndex |-> 0, positionInStack |-> i - 1]],
   sourceStackCards |-> [i \in 1..total |-> i],
   destinationStackCards |-> <<>>,
   animationTimer |-> 0,
   isAnimating |-> FALSE,
   animationComplete |-> FALSE,
   activeTween |-> noTween,
   animatingCard |-> 0,
   destroyed |-> FALSE,
   sinceStart |-> -1,
   restarted |-> {},
   transferredCalls |-> 0]

\* the onComplete callback of the movement tween
onComplete(sc) ==
  LET cardToMove == sc.animatingCard
  IN  [sc EXCEPT !.destinationStackCards = Append(@, cardToMove),
                 !.cards[cardToMove] = [stackIndex |-> 1,
                                        positionInStack |-> sc.activeTween.destIndex],
                 !.isAnimating = FALSE,
                 !.activeTween = noTween,
                 !.animatingCard = 0]

\* tweenGroup.update(): the movement tween advances and completes at its duration
tweenGroupUpdate(sc, dt) ==
  IF ~sc.activeTween.active THEN sc
  ELSE IF sc.activeTween.elapsed + dt >= ANIMATION_DURATION THEN onComplete(sc)
  ELSE [sc EXCEPT !.activeTween.elapsed = @ + dt]

\* a variant of animateNextCard that takes the bottom card of the source stack
animateNextCard_bottom(sc) ==
  IF Len(sc.sourceStackCards) = 0 \/ sc.isAnimating THEN sc
  ELSE [sc EXCEPT !.sourceStackCards = Tail(@),
                  !.isAnimating = TRUE,
                  !.animatingCard = Head(sc.sourceStackCards),
                  !.activeTween = [active |-> TRUE, elapsed |-> 0,
                                   destIndex |-> Len(sc.destinationStackCards)]]

\* animateNextCard(): the top card is popped and its movement tween started
animateNextCard(sc) ==
  IF Len(sc.sourceStackCards) = 0 \/ sc.isAnimating THEN sc
  ELSE [sc EXCEPT !.sourceStackCards = SubSeq(@, 1, Len(@) - 1),
                  !.isAnimating = TRUE,
                  !.animatingCard = sc.sourceStackCards[Len(sc.sourceStackCards)],
                  !.activeTween = [active |-> TRUE, elapsed |-> 0,
                                   destIndex |-> Len(sc.destinationStackCards)]]

\* a variant of update(deltaTime) without the test of animationComplete
sceneUpdate_recall(sc, dt) ==
  LET tweened == tweenGroupUpdate(sc, dt)
      timed == [tweened EXCEPT !.animationTimer = @ + dt]
  IN  IF Len(timed.sourceStackCards) > 0 /\ ~timed.isAnimating
      THEN IF timed.animationTimer >= ANIMATION_INTERVAL
           THEN [animateNextCard(timed) EXCEPT !.animationTimer = 0]
           ELSE timed
      ELSE IF Len(timed.sourceStackCards) = 0 /\ ~timed.isAnimating
      THEN [timed EXCEPT !.animationComplete = TRUE, !.transferredCalls = @ + 1]
      ELSE timed

\* update(deltaTime) of the scene
sceneUpdate(sc, dt) ==
  LET tweened == tweenGroupUpdate(sc, dt)
      timed == [tweened EXCEPT !.animationTimer = @ + dt]
  IN  IF Len(timed.sourceStackCards) > 0 /\ ~timed.isAnimating
      THEN IF timed.animationTimer >= ANIMATION_INTERVAL
           THEN [animateNextCard(timed) EXCEPT !.animationTimer = 0]
           ELSE timed
      ELSE IF Len(timed.sourceStackCards) = 0 /\ ~timed.isAnimating
              /\ ~timed.animationComplete
      THEN [timed EXCEPT !.animationComplete = TRUE, !.transferredCalls = @ + 1]
      ELSE timed

\* a variant of onResize() in which the callback of the stopped tween runs
onResize_oldCompletes(sc) ==
  IF sc.activeTween.active /\ sc.animatingCard # 0
  THEN [onComplete(sc) EXCEPT
          !.isAnimating = TRUE,
          !.animatingCard = sc.animatingCard,
          !.activeTween = [active |-> TRUE, elapsed |-> 0,
                           destIndex |-> Len(sc.destinationStackCards) + 1],
          !.restarted = @ \cup {sc.animatingCard}]
  ELSE sc

\* onResize(): the movement tween in progress is stopped and started again
\* from the card's position, to the same index of the destination stack
onResize(sc) ==
  IF sc.activeTween.active /\ sc.animatingCard # 0
  THEN [sc EXCEPT !.activeTween = [active |-> TRUE, elapsed |-> 0,
                                   destIndex |-> Len(sc.destinationStackCards)],
                  !.restarted = @ \cup {sc.animatingCard}]
  ELSE sc

\* destroy() of the scene
sceneDestroy(sc) ==
  [sc EXCEPT !.activeTween = noTween, !.animatingCard = 0, !.isAnimating = FALSE,
             !.destroyed = TRUE]

\* a card starts to move in sceneUpdate(sc, dt)
startsCard(sc, after) ==
  after.animatingCard # 0 /\ after.animatingCard # sc.animatingCard

InitAce ==
  /\ \E total \in 1..MaxCards : scene = newScene(total)
  /\ particles = <<>>
  /\ nextId = 1
  /\ maxSprites = 1
  /\ spawnTimer = 0
  /\ spawnInterval = 3
  /\ singleSprites = <<>>
  /\ groups = <<>>
  /\ children = {}
  /\ nextSprite = 0
  /\ clusters = <<>>
  /\ prevClusters = <<>>
  /\ lastOp = [op |-> "init", arg |-> 0]
  /\ registry = <<>>
  /\ game = <<>>
  /\ simulation = <<>>

AceUpdate ==
  /\ ~scene.destroyed
  /\ \E dt \in AceDTS :
       /\ scene.animationTimer + dt <= MaxTimer
       /\ LET after == sceneUpdate(scene, dt)
          IN  scene' = [after EXCEPT !.sinceStart =
                          IF startsCard(scene, after) THEN 0
                          ELSE IF @ < 0 THEN @ ELSE @ + dt]
       /\ lastOp' = [op |-> "update", arg |-> dt]
  /\ UNCHANGED <<particles, nextId, maxSprites, spawnTimer, spawnInterval,
                 singleSprites, groups, children, nextSprite, clusters, prevClusters,
                 registry, game, simulation>>

AceResize ==
  /\ ~scene.destroyed
  /\ scene' = onResize(scene)
  /\ lastOp' = [op |-> "resize", arg |-> 0]
  /\ UNCHANGED <<particles, nextId, maxSprites, spawnTimer, spawnInterval,
                 singleSprites, groups, children, nextSprite, clusters, prevClusters,
                 registry, game, simulation>>

AceDestroy ==
  /\ ~scene.destroyed
  /\ scene' = sceneDestroy(scene)
  /\ lastOp' = [op |-> "destroy", arg |-> 0]
  /\ UNCHANGED <<particles, nextId, maxSprites, spawnTimer, spawnInterval,
                 singleSprites, groups, children, nextSprite, clusters, prevClusters,
                 registry, game, simulation>>

NextAce == AceUpdate \/ AceResize \/ AceDestroy

SpecAce == InitAce /\ [][NextAce]_vars

\* C26: while the source stack is not empty a card starts to move in the
\* first update() at which 1000 ms have accumulated since the card before it
\* started, whatever the 2000 ms of the movement.
C26_StartsEverySecond ==
  [][(lastOp'.op = "update" /\ scene'.sinceStart = 0 /\ scene.sinceStart >= 0)
       => /\ scene.sinceStart + lastOp'.arg >= ANIMATION_INTERVAL
          /\ scene.sinceStart + lastOp'.arg < ANIMATION_INTERVAL + lastOp'.arg]_vars

\* the cards in flight: off both stacks
inFlight ==
  {c \in DOMAIN scene.cards :
     /\ \A i \in DOMAIN scene.sourceStackCards : scene.sourceStackCards[i] # c
     /\ \A i \in DOMAIN scene.destinationStackCards : scene.destinationStackCards[i] # c}

MaxTextures == 3

\* metadata.particleCount of the registered textures
CountS == {1, 2, 3, 10}

\* metadata.mergeState of the registered textures
MergeStateS == {"close", "touching"}

\* particles.length of the clusters looked up
LengthS == {1, 2, 4, 6}

\* clusterAnalysis: null, or an analysis that gives the mergeState only
AnalysisS == {"null", "close", "touching"}

outcome(kind, texture) ==
  [kind |-> kind, name |-> texture.name, particleCount |-> texture.particleCount]

noTexture == [name |-> 0, particleCount |-> 0, mergeState |-> "none"]

\* new TextureRegistry()
newRegistry ==
  [byParticleCount |-> <<>>, registered |-> 0, found |-> outcome("none", noTexture)]

\* register(metadata): the texture is appended to the list of its particle count
register(reg, count, mergeState) ==
  LET texture == [name |-> reg.registered + 1, particleCount |-> count,
                  mergeState |-> mergeState]
      old == reg.byParticleCount
  IN  [reg EXCEPT !.registered = @ + 1,
                  !.byParticleCount =
                     [c \in DOMAIN old \cup {count} |->
                        IF c = count
                        THEN (IF c \in DOMAIN old THEN Append(old[c], texture)
                              ELSE <<texture>>)
                        ELSE old[c]]]

\* the decimal digits of a count below 100
digits(n) == IF n < 10 THEN <<n>> ELSE <<n \div 10, n % 10>>

\* the order of Array.prototype.sort() without a comparator: by the strings
stringLess(a, b) ==
  LET da == digits(a)
      db == digits(b)
  IN  \E i \in 1..(Len(da) + 1) :
        /\ i <= Len(db)
        /\ \A j \in 1..(i - 1) : da[j] = db[j]
        /\ (i > Len(da) \/ da[i] < db[i])

RECURSIVE sortedKeys(_)
\* Array.from(this.byParticleCount.keys()).sort()
sortedKeys(S) ==
  IF S = {} THEN <<>>
  ELSE LET k == CHOOSE k \in S : \A o \in S \ {k} : stringLess(k, o)
       IN  <<k>> \o sortedKeys(S \ {k})

RECURSIVE reduceClosest(_, _, _)
\* sizes.reduce((prev, curr) => |curr - n| < |prev - n| ? curr : prev)
reduceClosest(prev, rest, n) ==
  IF rest = <<>> THEN prev
  ELSE reduceClosest(IF Abs(Head(rest) - n) < Abs(prev - n) THEN Head(rest) ELSE prev,
                     Tail(rest), n)

\* getMatchScore(particles, undefined, undefined, mergeState, undefined)
getMatchScore(texture, n, analysis) ==
  LET count == IF texture.particleCount = n THEN 100
               ELSE 0 - Abs(texture.particleCount - n) * 20
      state == IF analysis # "null" /\ texture.mergeState = analysis THEN 50 ELSE 0
  IN  IF count + state > 0 THEN count + state ELSE 0

RECURSIVE scoreLoop(_, _, _, _, _, _)
\* the loop over the candidates; bestScore -1 stands for -Infinity
scoreLoop(cands, i, n, analysis, bestTexture, bestScore) ==
  IF i > Len(cands) THEN bestTexture
  ELSE LET score == getMatchScore(cands[i], n, analysis)
       IN  IF score > bestScore
           THEN scoreLoop(cands, i + 1, n, analysis, cands[i], score)
           ELSE scoreLoop(cands, i + 1, n, analysis, bestTexture, bestScore)

\* findBestTexture(particles, clusterAnalysis) for particles.length = n; pick
\* is Math.floor(Math.random() * singles.length)
findBestTexture(reg, n, analysis, pick) ==
  LET by == reg.byParticleCount
      keys == sortedKeys(DOMAIN by)
      closestSize == reduceClosest(Head(keys), Tail(keys), n)
      cands == IF n \in DOMAIN by THEN by[n] ELSE by[closestSize]
  IN  IF n = 1
      THEN IF 1 \in DOMAIN by THEN outcome("texture", by[1][pick + 1])
           ELSE outcome("undefined", noTexture)
      ELSE IF n \notin DOMAIN by /\ keys = <<>>
      THEN outcome("TypeError", noTexture)
      ELSE IF Len(cands) = 0 THEN outcome("null", noTexture)
      ELSE outcome("texture", scoreLoop(cands, 1, n, analysis, cands[1], -1))

InitRegistry ==
  /\ registry = newRegistry
  /\ game = <<>>
  /\ simulation = <<>>
  /\ scene = <<>>
  /\ particles = <<>>
  /\ nextId = 1
  /\ maxSprites = 1
  /\ spawnTimer = 0
  /\ spawnInterval = 3
  /\ singleSprites = <<>>
  /\ groups = <<>>
  /\ children = {}
  /\ nextSprite = 0
  /\ clusters = <<>>
  /\ prevClusters = <<>>
  /\ lastOp = [op |-> "new", arg |-> 0]

Register ==
  /\ registry.registered < MaxTextures
  /\ \E count \in CountS, mergeState \in MergeStateS :
       /\ registry' = register(registry, count, mergeState)
       /\ lastOp' = [op |-> "register", arg |-> count]
  /\ UNCHANGED <<particles, nextId, maxSprites, spawnTimer, spawnInterval,
                 singleSprites, groups, children, nextSprite, clusters, prevClusters,
                 scene, game, simulation>>

FindBestTexture ==
  /\ \E n \in LengthS, analysis \in AnalysisS :
       \E pick \in IF n = 1 /\ 1 \in DOMAIN registry.byParticleCount
                   THEN 0..(Len(registry.byParticleCount[1]) - 1) ELSE {0} :
         /\ registry' = [registry EXCEPT
                           !.found = findBestTexture(registry, n, analysis, pick)]
         /\ lastOp' = [op |-> "findBestTexture", arg |-> n]
  /\ UNCHANGED <<particles, nextId, maxSprites, spawnTimer, spawnInterval,
                 singleSprites, groups, children, nextSprite, clusters, prevClusters,
                 scene, game, simulation>>

NextRegistry == Register \/ FindBestTexture

SpecRegistry == InitRegistry /\ [][NextRegistry]_vars

\* C28: for a cluster of n >= 2 particles whose count has no registered
\* texture, findBestTexture returns a texture of a registered count nearest
\* to n, and null when nothing is registered; it does not throw.
C28_NearestOrNull ==
  (/\ lastOp.op = "findBestTexture"
   /\ lastOp.arg >= 2
   /\ lastOp.arg \notin DOMAIN registry.byParticleCount)
  => IF DOMAIN registry.byParticleCount = {}
     THEN registry.found.kind = "null"
     ELSE /\ registry.found.kind = "texture"
          /\ registry.found.particleCount \in DOMAIN registry.byParticleCount
          /\ \A c \in DOMAIN registry.byParticleCount :
               Abs(registry.found.particleCount - lastOp.arg) <= Abs(c - lastOp.arg)

---------------------------------------------------------------------------
(* The scene on stage for ever: update() keeps being called.               *)

NextAceLive == AceUpdate \/ AceResize

\* the ticker calls update() again and again
SpecAceLive == InitAce /\ [][NextAceLive]_vars /\ WF_vars(AceUpdate)

MaxEntries == 10

\* new DialogueComponent(dialogueEntries, ...)
newDialogue(total) == [total |-> total, currentDialogueIndex |-> 0, returned |-> "void"]

\* a variant of nextDialogue() that advances up to the length
nextDialogue_pastEnd(dc) ==
  IF dc.currentDialogueIndex < dc.total
  THEN [dc EXCEPT !.currentDialogueIndex = @ + 1, !.returned = "true"]
  ELSE [dc EXCEPT !.returned = "false"]

nextDialogue(dc) ==
  IF dc.currentDialogueIndex < dc.total - 1
  THEN [dc EXCEPT !.currentDialogueIndex = @ + 1, !.returned = "true"]
  ELSE [dc EXCEPT !.returned = "false"]

previousDialogue(dc) ==
  IF dc.currentDialogueIndex > 0
  THEN [dc EXCEPT !.currentDialogueIndex = @ - 1, !.returned = "true"]
  ELSE [dc EXCEPT !.returned = "false"]

resetToStart(dc) == [dc EXCEPT !.currentDialogueIndex = 0, !.returned = "void"]

\* what no action of the dialogue specifications changes
systemVars ==
  <<particles, nextId, maxSprites, spawnTimer, spawnInterval, singleSprites, groups,
    children, nextSprite, clusters, prevClusters, registry, game, simulation>>

\* the system is not in use
systemIdle ==
  /\ particles = <<>>
  /\ nextId = 1
  /\ maxSprites = 1
  /\ spawnTimer = 0
  /\ spawnInterval = 3
  /\ singleSprites = <<>>
  /\ groups = <<>>
  /\ children = {}
  /\ nextSprite = 0
  /\ clusters = <<>>
  /\ prevClusters = <<>>
  /\ registry = <<>>
  /\ game = <<>>
  /\ simulation = <<>>

InitDialogue ==
  /\ \E total \in 0..MaxEntries : scene = newDialogue(total)
  /\ lastOp = [op |-> "new", arg |-> 0]
  /\ systemIdle

NextDialogue ==
  /\ scene' = nextDialogue(scene)
  /\ lastOp' = [op |-> "nextDialogue", arg |-> 0]
  /\ UNCHANGED systemVars

PreviousDialogue ==
  /\ scene' = previousDialogue(scene)
  /\ lastOp' = [op |-> "previousDialogue", arg |-> 0]
  /\ UNCHANGED systemVars

ResetToStart ==
  /\ scene' = resetToStart(scene)
  /\ lastOp' = [op |-> "resetToStart", arg |-> 0]
  /\ UNCHANGED systemVars

NextDialogues == NextDialogue \/ PreviousDialogue \/ ResetToStart

SpecDialogue == InitDialogue /\ [][NextDialogues]_vars

\* C35: with a non-empty entry list the index stays within 0..length - 1;
\* nextDialogue returns true iff it advanced the index by one, and returns
\* false with the index unchanged at the last entry; previousDialogue does
\* the same downwards at index 0; resetToStart sets the index to 0.
C35_IndexWithinEntries ==
  [][scene.total >= 1 =>
       LET i == scene.currentDialogueIndex
           j == scene'.currentDialogueIndex
       IN  /\ 0 <= j /\ j <= scene.total - 1
           /\ lastOp'.op = "nextDialogue" =>
                /\ scene'.returned \in {"true", "false"}
                /\ scene'.returned = "true" <=> j = i + 1
                /\ scene'.returned = "false" <=> (j = i /\ i = scene.total - 1)
           /\ lastOp'.op = "previousDialogue" =>
                /\ scene'.returned \in {"true", "false"}
                /\ scene'.returned = "true" <=> j = i - 1
                /\ scene'.returned = "false" <=> (j = i /\ i = 0)
           /\ lastOp'.op = "resetToStart" => j = 0]_vars

C35_Witness_RefusedAtLastEntry ==
  /\ lastOp.op = "nextDialogue"
  /\ scene.total >= 2
  /\ scene.currentDialogueIndex = scene.total - 1
  /\ scene.returned = "false"

(***************************************************************************)
(* MagicWordsScene (src/unnamed/part_003).  The scene is                   *)
(*   [dialogueComponent, hasError, listeners, progressText,                *)
(*    instructionText, destroyed]                                          *)
(* dialogueComponent is <<component>>, or <<>> for null; listeners is the  *)
(* list of 'pointertap' listeners of clickArea, by name, in registration   *)
(* order; progressText is <<current, total>> for the text                  *)
(* `Dialogue current / total` and <<>> for the empty text;                 *)
(* instructionText is "continue" or "complete".                            *)
(* AssetLoader keeps dialogue data only when the list is not empty         *)
(* (PlayingCard.ts 828), so a loaded scene has one entry or more.          *)
(***************************************************************************)

updateProgressText(sc) ==
  IF sc.dialogueComponent = <<>> THEN sc
  ELSE [sc EXCEPT !.progressText =
          <<sc.dialogueComponent[1].currentDialogueIndex + 1, sc.dialogueComponent[1].total>>]

\* constructor() and init(); total = 0 stands for data that was not loaded
newMagicWords(total) ==
  IF total = 0
  THEN [dialogueComponent |-> <<>>, hasError |-> TRUE,
        listeners |-> <<"onScreenClick">>, progressText |-> <<>>,
        instructionText |-> "continue", destroyed |-> FALSE]
  ELSE updateProgressText(
       [dialogueComponent |-> <<newDialogue(total)>>, hasError |-> FALSE,
        listeners |-> <<"onScreenClick">>, progressText |-> <<>>,
        instructionText |-> "continue", destroyed |-> FALSE])

\* a variant of onDialogueComplete() that keeps the listeners it finds
onDialogueComplete_keepsListener(sc) ==
  [sc EXCEPT !.instructionText = "complete",
             !.listeners = Append(@, "restart")]

onDialogueComplete(sc) ==
  [sc EXCEPT !.instructionText = "complete",
             !.listeners = <<"restart">>]

onScreenClick(sc) ==
  IF sc.hasError \/ sc.dialogueComponent = <<>> THEN sc
  ELSE LET advanced == updateProgressText([sc EXCEPT !.dialogueComponent = <<nextDialogue(@[1])>>])
       IN  IF advanced.dialogueComponent[1].returned = "false"
           THEN onDialogueComplete(advanced)
           ELSE advanced

\* the listener installed by onDialogueComplete()
restartListener(sc) ==
  IF sc.dialogueComponent = <<>> THEN sc
  ELSE [updateProgressText([sc EXCEPT !.dialogueComponent = <<resetToStart(@[1])>>])
          EXCEPT !.instructionText = "continue",
                 !.listeners = <<"onScreenClick">>]

\* clickArea.emit('pointertap'): the listeners registered when the event
\* arrives are called in order
RECURSIVE emitPointertap(_, _)
emitPointertap(sc, ls) ==
  IF ls = <<>> THEN sc
  ELSE emitPointertap(IF Head(ls) = "onScreenClick" THEN onScreenClick(sc)
                      ELSE restartListener(sc), Tail(ls))

InitMagicWords ==
  /\ \E total \in 0..MaxEntries : scene = newMagicWords(total)
  /\ lastOp = [op |-> "init", arg |-> 0]
  /\ systemIdle

\* the user taps the click area
MagicWordsClick ==
  /\ ~scene.destroyed
  /\ scene' = emitPointertap(scene, scene.listeners)
  /\ lastOp' = [op |-> "click", arg |-> 0]
  /\ UNCHANGED systemVars

\* onResize(): lays the texts and the component out again
MagicWordsResize ==
  /\ ~scene.destroyed
  /\ lastOp.op # "resize"
  /\ lastOp' = [op |-> "resize", arg |-> 0]
  /\ UNCHANGED <<scene, systemVars>>

\* destroy()
MagicWordsDestroy ==
  /\ ~scene.destroyed
  /\ scene' = [scene EXCEPT !.listeners = <<>>, !.destroyed = TRUE]
  /\ lastOp' = [op |-> "destroy", arg |-> 0]
  /\ UNCHANGED systemVars

NextMagicWords == MagicWordsClick \/ MagicWordsResize \/ MagicWordsDestroy

SpecMagicWords == InitMagicWords /\ [][NextMagicWords]_vars

\* C36: until the scene is destroyed the click area has exactly one
\* pointertap listener; with dialogue loaded, a click before the last entry
\* advances the index by one, a click on the last entry leaves the index
\* and switches to the complete state, the click after that resets the
\* index to 0 and re-installs the normal handler; the progress text always
\* shows index + 1, which lies within 1..total.
C36_OneListenerAndClickCycle ==
  /\ [](~scene.destroyed => Len(scene.listeners) = 1)
  /\ []((~scene.destroyed /\ ~scene.hasError) =>
          /\ scene.progressText =
               <<scene.dialogueComponent[1].currentDialogueIndex + 1, scene.dialogueComponent[1].total>>
          /\ 1 <= scene.progressText[1]
          /\ scene.progressText[1] <= scene.progressText[2])
  /\ [][(lastOp'.op = "click" /\ ~scene.hasError) =>
          LET i == scene.dialogueComponent[1].currentDialogueIndex
              j == scene'.dialogueComponent[1].currentDialogueIndex
              last == scene.dialogueComponent[1].total - 1
          IN  IF scene.instructionText = "complete"
              THEN /\ j = 0
                   /\ scene'.listeners = <<"onScreenClick">>
                   /\ scene'.instructionText = "continue"
              ELSE IF i < last
              THEN /\ j = i + 1
                   /\ scene'.listeners = <<"onScreenClick">>
                   /\ scene'.instructionText = "continue"
              ELSE /\ j = i
                   /\ scene'.listeners = <<"restart">>
                   /\ scene'.instructionText = "complete"]_vars

C36_Witness_RestartedAfterComplete ==
  /\ lastOp.op = "click"
  /\ ~scene.hasError
  /\ scene.dialogueComponent[1].total >= 3
  /\ scene.dialogueComponent[1].currentDialogueIndex = 0
  /\ scene.dialogueComponent[1].returned = "void"
  /\ scene.instructionText = "continue"
  /\ scene.listeners = <<"onScreenClick">>
  /\ scene.progressText = <<1, scene.dialogueComponent[1].total>>

(***************************************************************************)
(* GameManager (src/src/GameManager.ts) and its SceneControls              *)
(* (src/unnamed/part_004).  The variable game holds                        *)
(*   [debugMode, debugMenuVisible, debugText, currentScene,                *)
(*    currentSceneText, created, destroyed, tint]                          *)
(* debugText is the label of the Debug button, currentScene the name of    *)
(* the scene on stage, created and destroyed count the scenes constructed  *)
(* and destroyed so far, tint maps a button to the tint of its background. *)
(* A user gesture reaches a button as a sequence of events; each event is  *)
(* dispatched to the listeners registered for it, in registration order.   *)
(* The Fullscreen button acts on the document only and is left out.        *)
(***************************************************************************)

\* at most MaxScenes scenes are constructed before the last gesture
MaxScenes == 6

SceneButtons == {"Ace of Shadows", "Magic Words", "Phoenix Flame"}

Buttons == SceneButtons \cup {"Debug"}

\* the events one gesture of the user delivers to the button under it
Gestures ==
  [click |-> <<"pointerdown", "click">>,
   tap   |-> <<"pointerdown", "touchstart", "touchend">>,
   hover |-> <<"pointerover">>,
   leave |-> <<"pointerout">>]

toggleDebugMode(g) ==
  [g EXCEPT !.debugMode = ~@, !.debugMenuVisible = ~g.debugMode]

debugToggleHandler(g) ==
  LET t == toggleDebugMode(g)
  IN  [t EXCEPT !.debugText = IF t.debugMode THEN "Debug: ON" ELSE "Debug: OFF"]

\* switchToScene(new Scene()) with the scene of the given name
switchToScene(g, name) ==
  [g EXCEPT !.created = @ + 1,
            !.destroyed = IF g.currentScene # "null" THEN @ + 1 ELSE @,
            !.currentScene = name,
            !.currentSceneText = name]

\* the listeners of a button for an event, in registration order
\* (createSceneButton, setupDebugToggleButton)
listenersOf(event) ==
  CASE event = "pointerdown" -> <<"action">>
    [] event = "click"       -> <<"action">>
    [] event = "pointerover" -> <<"darken">>
    [] event = "touchstart"  -> <<"darken">>
    [] event = "pointerout"  -> <<"lighten">>
    [] event = "touchend"    -> <<"lighten">>
    [] OTHER                 -> <<>>

callListener(g, button, listener) ==
  CASE listener = "darken"  -> [g EXCEPT !.tint[button] = "cccccc"]
    [] listener = "lighten" -> [g EXCEPT !.tint[button] = "ffffff"]
    [] OTHER -> IF button = "Debug" THEN debugToggleHandler(g)
                ELSE switchToScene(g, button)

RECURSIVE emitTo(_, _, _)
emitTo(g, button, ls) ==
  IF ls = <<>> THEN g
  ELSE emitTo(callListener(g, button, Head(ls)), button, Tail(ls))

RECURSIVE deliver(_, _, _)
deliver(g, button, events) ==
  IF events = <<>> THEN g
  ELSE deliver(emitTo(g, button, listenersOf(Head(events))), button, Tail(events))

\* new GameManager(app, config) and init(): the first scene is on stage
newGame ==
  switchToScene(
    [debugMode |-> TRUE, debugMenuVisible |-> TRUE, debugText |-> "Debug: ON",
     currentScene |-> "null", currentSceneText |-> "Demo",
     created |-> 0, destroyed |-> 0,
     tint |-> [b \in Buttons |-> "ffffff"]],
    "Ace of Shadows")

InitControls ==
  /\ game = newGame
  /\ lastOp = [op |-> "init", arg |-> "none"]
  /\ scene = <<>>
  /\ simulation = <<>>
  /\ particles = <<>>
  /\ nextId = 1
  /\ maxSprites = 1
  /\ spawnTimer = 0
  /\ spawnInterval = 3
  /\ singleSprites = <<>>
  /\ groups = <<>>
  /\ children = {}
  /\ nextSprite = 0
  /\ clusters = <<>>
  /\ prevClusters = <<>>
  /\ registry = <<>>

\* one gesture of the user on one button
Gesture ==
  /\ game.created < MaxScenes
  /\ \E button \in Buttons, kind \in DOMAIN Gestures :
       /\ game' = deliver(game, button, Gestures[kind])
       /\ lastOp' = [op |-> kind, arg |-> button]
  /\ UNCHANGED <<particles, nextId, maxSprites, spawnTimer, spawnInterval, singleSprites,
                 groups, children, nextSprite, clusters, prevClusters, scene, registry,
                 simulation>>

NextControls == Gesture

SpecControls == InitControls /\ [][NextControls]_vars

\* C37: one click on a button (a 'pointerdown' and a 'click' event) causes
\* the button's action exactly once: on the Debug button debugMode is
\* flipped once and the label matches it, on a scene button exactly one new
\* scene is created and it is the scene on stage afterwards.
C37_ClickActsOnce ==
  [][lastOp'.op = "click" =>
       IF lastOp'.arg = "Debug"
       THEN /\ game'.debugMode = ~game.debugMode
            /\ game'.debugText = (IF game'.debugMode THEN "Debug: ON" ELSE "Debug: OFF")
       ELSE /\ game'.created = game.created + 1
            /\ game'.currentScene = lastOp'.arg]_vars

(***************************************************************************)
(* FlameSimulation (src/scripts/flameSimulation.js), the offline study.    *)
(* The variable simulation holds                                           *)
(*   [particles, time, spawnTimer, spawnInterval, maxParticles,            *)
(*    clusters, analysed, clusterHistory, spawned]                         *)
(* Times are in ticks of 0.05 s, velocities in px/s, positions in          *)
(* twentieths of a pixel, so that x += vx * dt and vy -= 20 * dt are exact *)
(* in integers.  A particle is [id, x, y, vx, vy, life, active, radius].   *)
(* The draws of Math.random() are inputs: position and life of a new       *)
(* particle come from SimXS and SimLives, its velocity is (0, -40) and its *)
(* radius 10; the turbulence draws are 0.5 (no turbulence).  Drag and the  *)
(* attraction force act on the velocity only, in floating point, and are   *)
(* left out: they touch neither id, life nor active.                       *)
(* clusters is the result of the last findClusters, each cluster a list of *)
(* indices into particles; analysed tells whether the last update ran the  *)
(* analysis; clusterHistory keeps [time, size] of the recorded clusters;   *)
(* spawned counts the particles constructed so far.                        *)
(***************************************************************************)

\* the simulation constructs at most MaxSimSpawns particles
MaxSimSpawns == 4

\* the frame times of the simulation, in ticks (0.05 s and 1 s)
SimDTS == {1, 20}

\* x of a new particle, in pixels (flameCenter + cos(angle) * radius)
SimXS == {80, 125}

\* life of a new particle, in ticks (3 s and 5 s)
SimLives == {60, 100}

newSimulation ==
  [particles |-> <<>>, time |-> 0, spawnTimer |-> 0, spawnInterval |-> 2,
   maxParticles |-> 50, clusters |-> <<>>, analysed |-> FALSE,
   clusterHistory |-> <<>>, spawned |-> 0]

\* new SimulationParticle(x, y, id)
SimulationParticle(x, y, id, life) ==
  [id |-> id, x |-> x * 20, y |-> y * 20, vx |-> 0, vy |-> -40,
   life |-> life, active |-> TRUE, radius |-> 10]

\* SimulationParticle.update(dt, ...)
simParticleUpdate(p, dt) ==
  IF ~p.active THEN p
  ELSE [p EXCEPT !.x = @ + p.vx * dt,
                 !.y = @ + p.vy * dt,
                 !.vy = @ - dt,
                 !.life = @ - dt,
                 !.active = p.life - dt > 0]

\* spawnParticle(): the id is the current length of the array
spawnParticle(sim, x, life) ==
  [sim EXCEPT !.particles = Append(@, SimulationParticle(x, 400, Len(sim.particles), life)),
              !.spawned = @ + 1]

\* the distance test of findClusters
simNear(cur, other) ==
  (other.x - cur.x) * (other.x - cur.x) + (other.y - cur.y) * (other.y - cur.y)
    <= ((cur.radius + other.radius) * 2 * 20) * ((cur.radius + other.radius) * 2 * 20)

\* the indices pushed on the stack for the particle at index cur
simNeighbours(ps, cur, visited) ==
  SelectSeq([k \in 1..Len(ps) |-> k],
            LAMBDA k : ps[k].id \notin visited /\ simNear(ps[cur], ps[k]))

\* the while loop of findClusters: [visited, cluster] once the stack is empty
RECURSIVE simDrain(_, _, _, _)
simDrain(ps, stack, visited, cluster) ==
  IF stack = <<>> THEN [visited |-> visited, cluster |-> cluster]
  ELSE LET cur == stack[Len(stack)]
           rest == SubSeq(stack, 1, Len(stack) - 1)
       IN  IF ps[cur].id \in visited
           THEN simDrain(ps, rest, visited, cluster)
           ELSE simDrain(ps, rest \o simNeighbours(ps, cur, visited \cup {ps[cur].id}),
                         visited \cup {ps[cur].id}, Append(cluster, cur))

\* the for loop of findClusters from index i on
RECURSIVE simClustersFrom(_, _, _, _)
simClustersFrom(ps, i, visited, found) ==
  IF i > Len(ps) THEN found
  ELSE IF ps[i].id \in visited THEN simClustersFrom(ps, i + 1, visited, found)
  ELSE LET d == simDrain(ps, <<i>>, visited, <<>>)
       IN  simClustersFrom(ps, i + 1, d.visited, Append(found, d.cluster))

findClusters(ps) == simClustersFrom(ps, 1, {}, <<>>)

\* analyzeCurrentClusters(); every particle of the array is active here
analyzeCurrentClusters(sim) ==
  IF Len(sim.particles) = 0 THEN [sim EXCEPT !.analysed = TRUE, !.clusters = <<>>]
  ELSE LET found == findClusters(sim.particles)
           big == SelectSeq(found, LAMBDA c : Len(c) >= 2)
       IN  [sim EXCEPT !.analysed = TRUE,
                       !.clusters = found,
                       !.clusterHistory =
                          @ \o [k \in 1..Len(big) |-> [time |-> sim.time, size |-> Len(big[k])]]]

\* update(dt) with the draws x and life for the particle it may spawn
simUpdate(sim, dt, x, life) ==
  LET timed == [sim EXCEPT !.time = @ + dt, !.spawnTimer = @ + dt, !.analysed = FALSE]
      spawnedSim == IF timed.spawnTimer >= timed.spawnInterval
                       /\ Len(timed.particles) < timed.maxParticles
                    THEN [spawnParticle(timed, x, life) EXCEPT !.spawnTimer = 0]
                    ELSE timed
      moved == [k \in 1..Len(spawnedSim.particles) |->
                  simParticleUpdate(spawnedSim.particles[k], dt)]
      kept == [spawnedSim EXCEPT !.particles = SelectSeq(moved, LAMBDA p : p.active)]
  IN  IF kept.time \div 10 # (kept.time - dt) \div 10
      THEN analyzeCurrentClusters(kept)
      ELSE kept

InitSimulation ==
  /\ simulation = newSimulation
  /\ lastOp = [op |-> "new", arg |-> 0]
  /\ scene = <<>>
  /\ game = <<>>
  /\ particles = <<>>
  /\ nextId = 1
  /\ maxSprites = 1
  /\ spawnTimer = 0
  /\ spawnInterval = 3
  /\ singleSprites = <<>>
  /\ groups = <<>>
  /\ children = {}
  /\ nextSprite = 0
  /\ clusters = <<>>
  /\ prevClusters = <<>>
  /\ registry = <<>>

SimUpdate ==
  /\ simulation.spawned < MaxSimSpawns
  /\ \E dt \in SimDTS, x \in SimXS, life \in SimLives :
       /\ simulation' = simUpdate(simulation, dt, x, life)
       /\ lastOp' = [op |-> "update", arg |-> dt]
  /\ UNCHANGED <<particles, nextId, maxSprites, spawnTimer, spawnInterval, singleSprites,
                 groups, children, nextSprite, clusters, prevClusters, scene, registry,
                 game>>

NextSimulation == SimUpdate

SpecSimulation == InitSimulation /\ [][NextSimulation]_vars

\* C38: the live particles of the simulation have pairwise distinct ids,
\* and findClusters places every active particle in exactly one cluster.
C38_LiveIdsDistinct ==
  /\ \A j, k \in DOMAIN simulation.particles :
       simulation.particles[j].id = simulation.particles[k].id => j = k
  /\ simulation.analysed =>
       \A j \in DOMAIN simulation.particles :
         Cardinality({c \in DOMAIN simulation.clusters :
                        \E m \in DOMAIN simulation.clusters[c] :
                          simulation.clusters[c][m] = j}) = 1

====
